---- MODULE Spec2Model ----
(***************************************************************************)
(* A model of freebsd_build: the kernel configuration parser               *)
(* (kernel/config.py), the file manifest parser (kernel/files.py) and the  *)
(* build graph synthesizer and serializer (rules.py).                      *)
(*                                                                         *)
(* Text.  A Python string is a sequence of atoms.  An atom is a run of     *)
(* characters that the code never looks inside; every character the code   *)
(* inspects or slices on its own (a quote, '!', '|', '.', '/', '#', a      *)
(* blank, the extension letter, the letters of option and device names)    *)
(* is an atom of its own, so that indexing, slicing, splitting and joining *)
(* are computed on the sequence as the code computes them on the string.   *)
(* Python None is the empty tuple None and a present value s is Some(s).   *)
(***************************************************************************)
EXTENDS Integers, Sequences, FiniteSets, TLC

VARIABLES
    unit,           \* which constructor a parsing behaviour runs: "KernelConfig" or "Files"
    config,         \* the KernelConfig object: a record of its attributes
    cfgFile,        \* index of the configuration file being read (1 = defaults, 2 = user)
    cfgLines,       \* number of lines read so far, over all files
    cfgLast,        \* the line read last (an input, not state of the program)
    files,          \* the Files list: a sequence of File records
    prev_line,      \* Files.parse_data's pending continuation text
    mfFile,         \* index of the manifest file being read; 3 once Files.__init__ is over
    mfLines,        \* number of manifest lines read so far
    mfLast,         \* the manifest line read last (an input, not state of the program)
    mfErr,          \* None, or Some(kind) once Files.__init__ has aborted
    vars,           \* BuildRules.vars, an insertion-ordered dictionary
    pc,             \* position of generate_rules: "idle", "loop", "write", "done", "aborted"
    idx,            \* index of the next entry of the for loop
    rules, rule_counter, early_builds, builds, before_depends, objs,
    out,            \* the content of the build file: a sequence of line records
    opens,          \* how many times the build file has been opened for writing
    err,            \* None, or Some(kind) for the exception that ended the current call
    calls,          \* number of generate_rules calls started on this object
    prevOut,        \* None, or Some(build file) as the previous completed call left it
    table,          \* the Options dictionary: option name to header file name
    optLines,       \* number of lines of option tables read so far
    opc,            \* position of Options: "parse", "route", "written", "aborted"
    oidx,           \* index of the next option of config.options in write_headers
    optfiles,       \* write_headers' optfiles: header file name to list of (option, value)
    headers         \* the header files written: file name to sequence of #define lines

cfgVars == <<config, cfgFile, cfgLines, cfgLast>>
fileVars == <<files, prev_line, mfFile, mfLines, mfLast, mfErr>>
genVars == <<vars, pc, idx, rules, rule_counter, early_builds, builds, before_depends,
             objs, out, opens, err, calls, prevOut>>
optVars == <<table, optLines, opc, oidx, optfiles, headers>>
allVars == <<unit, cfgVars, fileVars, genVars, optVars>>

-----------------------------------------------------------------------------
(* Bounds *)

MaxConfigLines == 3
MaxEntries == 2
MaxManifestLines == 2
MaxCalls == 2
MaxTableLines == 2

-----------------------------------------------------------------------------
(* Strings *)

None == <<>>
Some(x) == <<x>>

\* str.upper / str.lower, atom by atom, on the letters the model uses
UpperAtom(c) ==
    CASE c = "a" -> "A" [] c = "b" -> "B" [] c = "dev_" -> "DEV_" [] OTHER -> c
LowerAtom(c) ==
    CASE c = "A" -> "a" [] c = "B" -> "b" [] c = "DEV_" -> "dev_" [] OTHER -> c
Upper(s) == [i \in 1..Len(s) |-> UpperAtom(s[i])]
Lower(s) == [i \in 1..Len(s) |-> LowerAtom(s[i])]

IsSpace(c) == c \in {" ", "\t"}

\* index of the first atom of s equal to c, 0 when there is none (str.find + 1)
RECURSIVE FindFrom(_, _, _)
FindFrom(s, c, i) ==
    IF i > Len(s) THEN 0 ELSE IF s[i] = c THEN i ELSE FindFrom(s, c, i + 1)
Find(s, c) == FindFrom(s, c, 1)

\* str.strip / str.rstrip on blanks
RECURSIVE RStrip(_)
RStrip(s) ==
    IF s # <<>> /\ IsSpace(s[Len(s)]) THEN RStrip(SubSeq(s, 1, Len(s) - 1)) ELSE s
RECURSIVE LStrip(_)
LStrip(s) == IF s # <<>> /\ IsSpace(s[1]) THEN LStrip(Tail(s)) ELSE s
Strip(s) == LStrip(RStrip(s))

\* str.split(): the maximal runs of non-blank atoms
RECURSIVE SplitAcc(_, _, _)
SplitAcc(s, word, acc) ==
    IF s = <<>> THEN (IF word = <<>> THEN acc ELSE Append(acc, word))
    ELSE IF IsSpace(s[1])
         THEN SplitAcc(Tail(s), <<>>, IF word = <<>> THEN acc ELSE Append(acc, word))
         ELSE SplitAcc(Tail(s), Append(word, s[1]), acc)
Split(s) == SplitAcc(s, <<>>, <<>>)

\* sep.join(words)
RECURSIVE Join(_, _)
Join(words, sep) ==
    IF words = <<>> THEN <<>>
    ELSE IF Len(words) = 1 THEN words[1]
    ELSE words[1] \o sep \o Join(Tail(words), sep)

\* the elements of a sequence
Range(s) == {s[i] : i \in 1..Len(s)}

-----------------------------------------------------------------------------
(* Insertion-ordered dictionaries: sequences of <<key, value>> pairs *)

Keys(d) == {d[i][1] : i \in 1..Len(d)}
HasKey(d, k) == k \in Keys(d)
Get(d, k) == d[CHOOSE i \in 1..Len(d) : d[i][1] = k][2]
\* d[k] = v: an existing key keeps its place
Put(d, k, v) ==
    IF HasKey(d, k) THEN [i \in 1..Len(d) |-> IF d[i][1] = k THEN <<k, v>> ELSE d[i]]
    ELSE Append(d, <<k, v>>)
\* d.pop(k), for a key of d
Pop(d, k) == SelectSeq(d, LAMBDA e : e[1] # k)

-----------------------------------------------------------------------------
(* KernelConfig *)

ConfigDirectives == {"machine", "cpu", "ident", "makeoptions", "options", "device"}

\* lines of configuration files the model reads
ConfigLines == {
    <<"machine", " ", "amd64">>,
    <<"machine", " ", "i386">>,
    <<"cpu", " ", "HAMMER">>,
    <<"ident", " ", "GENERIC">>,
    <<"makeoptions", " ", "DEBUG", "=", "-g">>,
    <<"options", " ", "A">>,
    <<"options", " ", "B", "=", "2", " ", "#", " ", "two">>,
    <<"device", " ", "a">>,
    <<"device", " ", "A", "b">>,
    <<"options", " ", "DEV_", "A", "=", "0">>,
    <<"#", " ", "machine", " ", "i386">>,
    <<"include", " ", "GENERIC">>,
    <<"nooptions", " ", "A">>,
    <<"machine">> }

\* KernelConfig.option_set
option_set(opts, devs, option) ==
    \/ HasKey(opts, Upper(option))
    \/ Lower(option) \in devs

\* the text of a line that parse_data keeps: None for a skipped line
ConfigLineText(line) ==
    IF line # <<>> /\ line[1] = "#" THEN None
    ELSE LET c == Find(line, "#")
             l == Strip(IF c # 0 THEN SubSeq(line, 1, c - 1) ELSE line)
         IN IF l = <<>> THEN None ELSE Some(l)

CfgAbort(k, kind) == [k EXCEPT !.err = Some(kind)]

directive_machine_overwrite(k, value) == [k EXCEPT !.machine = Some(value)]
directive_machine(k, value) ==
    IF k.machine # None /\ k.machine[1] # <<>>
    THEN CfgAbort(k, "DuplicateMachine")
    ELSE [k EXCEPT !.machine = Some(value)]

directive_cpu(k, value) == [k EXCEPT !.cpu = value]

directive_ident(k, value) == [k EXCEPT !.ident = Some(value)]

directive_makeoptions(k, value) == [k EXCEPT !.makeoptions = Append(@, value)]

directive_options(k, value) ==
    LET e == Find(value, "=")
    IN IF e # 0
       THEN [k EXCEPT !.options = Put(@, SubSeq(value, 1, e - 1),
                                      Some(SubSeq(value, e + 1, Len(value))))]
       ELSE [k EXCEPT !.options = Put(@, value, None)]

directive_device_only(k, value) == [k EXCEPT !.devices = @ \cup {value}]
directive_device(k, value) ==
    [k EXCEPT !.options = Put(@, <<"DEV_">> \o Upper(value), Some(<<"1">>)),
              !.devices = @ \cup {value}]

\* hasattr(self, 'directive_' + directive)
HasDirective(directive) == Len(directive) = 1 /\ directive[1] \in ConfigDirectives

\* one iteration of the loop of KernelConfig.parse_data
ConfigApply(k, line) ==
    LET text == ConfigLineText(line) IN
    IF text = None THEN k
    ELSE LET words == Split(text[1]) IN
         IF Len(words) # 2 THEN CfgAbort(k, "ValueError")
         ELSE LET directive == words[1]
                  value == words[2]
              IN IF ~HasDirective(directive) THEN CfgAbort(k, "UnknownDirective")
                 ELSE CASE directive[1] = "machine" -> directive_machine(k, value)
                        [] directive[1] = "cpu" -> directive_cpu(k, value)
                        [] directive[1] = "ident" -> directive_ident(k, value)
                        [] directive[1] = "makeoptions" -> directive_makeoptions(k, value)
                        [] directive[1] = "options" -> directive_options(k, value)
                        [] directive[1] = "device" -> directive_device(k, value)
                        [] OTHER -> k

\* KernelConfig.__init__ before the first file is read; err is None until parsing aborts
NewConfig ==
    [machine |-> None, ident |-> None, cpu |-> <<>>,
     options |-> << <<<<"MAXUSERS">>, Some(<<"0">>)>> >>,
     devices |-> {}, makeoptions |-> <<>>, err |-> None]

\* KernelConfig.filename: the last of the file names given to __init__
ConfigFilename == <<"GENERIC">>

\* the next line of the file being read
ConfigLine ==
    /\ unit = "KernelConfig"
    /\ config.err = None
    /\ cfgFile \in {1, 2}
    /\ cfgLines < MaxConfigLines
    /\ \E line \in ConfigLines :
         /\ config' = ConfigApply(config, line)
         /\ cfgLast' = line
    /\ cfgLines' = cfgLines + 1
    /\ UNCHANGED <<optVars, unit, cfgFile, fileVars, genVars>>

\* the end of the file being read: the next file, or the end of __init__
ConfigEndOfFile ==
    /\ unit = "KernelConfig"
    /\ config.err = None
    /\ cfgFile \in {1, 2}
    /\ cfgFile' = cfgFile + 1
    /\ UNCHANGED <<optVars, unit, config, cfgLines, cfgLast, fileVars, genVars>>

-----------------------------------------------------------------------------
(* File: one entry of the manifest *)

DIRECTIVES == {"standard", "optional", "profiling-routine", "no-obj", "no-implicit-rule",
               "compile-with", "dependency", "before-depend", "clean", "warning",
               "obj-prefix", "local"}

\* word in self.DIRECTIVES
IsDirective_any(word) == TRUE
IsDirective(word) == Len(word) = 1 /\ word[1] \in DIRECTIVES

\* File.__init__ before parse_data
NewFile ==
    [filename |-> None, optional |-> <<>>, dependencies |-> <<>>, compile_with |-> None,
     clean |-> {}, obj |-> TRUE, implicit_rule |-> TRUE, obj_prefix |-> None,
     profiling |-> FALSE, local |-> FALSE, before_depend |-> FALSE, warning |-> None]

\* File.collect_non_directives: the words it pops off the front of data
RECURSIVE collect_non_directives(_)
collect_non_directives(data) ==
    IF data # <<>> /\ ~IsDirective(data[1])
    THEN <<data[1]>> \o collect_non_directives(Tail(data))
    ELSE <<>>

IsQuote(c) == c \in {"\"", "'"}

\* File.quoted_string, applied to the collected words
quoted_string(words) ==
    LET string == Join(words, <<" ">>)
    IN IF string # <<>> /\ IsQuote(string[1])
       THEN SubSeq(string, 2, Len(string) - 1)
       ELSE string

\* e.strip('"')
RECURSIVE StripDQuote(_)
StripDQuote(e) ==
    IF e # <<>> /\ e[1] = "\"" THEN StripDQuote(Tail(e))
    ELSE IF e # <<>> /\ e[Len(e)] = "\"" THEN StripDQuote(SubSeq(e, 1, Len(e) - 1))
    ELSE e

\* File.quoted_list, applied to the collected words
quoted_list(words) == [i \in 1..Len(words) |-> StripDQuote(words[i])]

\* File.parse_optional_spec: the value it assigns to self.optional
RECURSIVE OptionalRuns(_, _, _)
OptionalRuns(spec, run, runs) ==
    IF spec = <<>> THEN (IF run # <<>> THEN Append(runs, run) ELSE runs)
    ELSE IF spec[1] # <<"|">>
         THEN OptionalRuns(Tail(spec), Append(run, spec[1]), runs)
         ELSE OptionalRuns(Tail(spec), <<>>, Append(runs, run))
parse_optional_spec(spec) == OptionalRuns(spec, <<>>, <<>>)

\* the while loop of File.parse_data over the words after the file name;
\* the result is [ok, file]: ok is FALSE when the loop raised
RECURSIVE ParseDirectives(_, _)
ParseDirectives(f, data) ==
    IF data = <<>> THEN [ok |-> TRUE, file |-> f]
    ELSE
    LET directive == data[1]
        rest == Tail(data)
        args == collect_non_directives(rest)
        after == SubSeq(rest, Len(args) + 1, Len(rest))
    IN
    IF ~IsDirective(directive) THEN [ok |-> FALSE, file |-> f]
    ELSE CASE directive[1] = "standard" -> ParseDirectives(f, rest)
           [] directive[1] = "optional" ->
                ParseDirectives([f EXCEPT !.optional = parse_optional_spec(args)], after)
           [] directive[1] = "compile-with" ->
                ParseDirectives([f EXCEPT !.compile_with = Some(quoted_string(args))], after)
           [] directive[1] = "clean" ->
                ParseDirectives(
                    [f EXCEPT !.clean = @ \cup (Range(quoted_list(args)) \ {f.filename[1]})],
                    after)
           [] directive[1] = "no-obj" -> ParseDirectives([f EXCEPT !.obj = FALSE], rest)
           [] directive[1] = "no-implicit-rule" ->
                ParseDirectives([f EXCEPT !.implicit_rule = FALSE], rest)
           [] directive[1] = "dependency" ->
                ParseDirectives([f EXCEPT !.dependencies = @ \o quoted_list(args)], after)
           [] directive[1] = "obj-prefix" ->
                ParseDirectives([f EXCEPT !.obj_prefix = Some(quoted_string(args))], after)
           [] directive[1] = "local" -> ParseDirectives([f EXCEPT !.local = TRUE], rest)
           [] directive[1] = "profiling-routine" ->
                ParseDirectives([f EXCEPT !.profiling = TRUE], rest)
           [] directive[1] = "before-depend" ->
                ParseDirectives([f EXCEPT !.before_depend = TRUE], rest)
           [] directive[1] = "warning" ->
                ParseDirectives([f EXCEPT !.warning = Some(quoted_string(args))], after)
           [] OTHER -> ParseDirectives(f, after)

\* s.endswith(suffix)
EndsWith(s, suffix) ==
    /\ Len(s) >= Len(suffix)
    /\ SubSeq(s, Len(s) - Len(suffix) + 1, Len(s)) = suffix

Ia32Genassym == <<"ia32_genassym", ".", "o">>

File_asWritten(data) ==
    LET words == Split(data) IN
    IF Len(words) < 2 THEN [ok |-> FALSE, file |-> NewFile]
    ELSE ParseDirectives([NewFile EXCEPT !.filename = Some(words[1])], Tail(words))
\* File(data): [ok, file]; ok is FALSE when the constructor raised
File(data) ==
    LET words == Split(data) IN
    IF Len(words) < 2 THEN [ok |-> FALSE, file |-> NewFile]
    ELSE LET r == ParseDirectives([NewFile EXCEPT !.filename = Some(words[1])], Tail(words))
         IN IF r.ok /\ EndsWith(r.file.filename[1], Ia32Genassym)
            THEN [ok |-> TRUE, file |-> [r.file EXCEPT !.before_depend = TRUE]]
            ELSE r

\* File.configured
RECURSIVE ItemsMatch(_, _)
ItemsMatch(condition, k) ==
    IF condition = <<>> THEN TRUE
    ELSE LET item == condition[1]
             negated == item[1] = "!"
             name == IF negated THEN Tail(item) ELSE item
         IN IF option_set(k.options, k.devices, name) # ~negated
            THEN FALSE
            ELSE ItemsMatch(Tail(condition), k)
RECURSIVE AnyRun(_, _)
AnyRun(optional, k) ==
    IF optional = <<>> THEN FALSE
    ELSE IF ItemsMatch(optional[1], k) THEN TRUE
    ELSE AnyRun(Tail(optional), k)
configured_conj(f, k) ==
    f.optional = <<>> \/ \A r \in 1..Len(f.optional) : ItemsMatch(f.optional[r], k)
configured(f, k) == IF f.optional = <<>> THEN TRUE ELSE AnyRun(f.optional, k)

-----------------------------------------------------------------------------
(* Files: the manifest *)

Line(words) == Join(words, <<" ">>)

SyntheticLines_swapped == <<
    Line(<< <<"env", ".", "c">>, <<"standard">>, <<"local">> >>),
    Line(<< <<"config", ".", "c">>, <<"standard">>, <<"local">> >>),
    Line(<< <<"hints", ".", "c">>, <<"standard">>, <<"local">> >>),
    Line(<< <<"vers", ".", "c">>, <<"standard">>, <<"local">> >>),
    Line(<< <<"vnode_if", ".", "c">>, <<"standard">>, <<"local">> >>) >>
\* the five entries Files.__init__ appends
SyntheticLines == <<
    Line(<< <<"config", ".", "c">>, <<"standard">>, <<"local">> >>),
    Line(<< <<"env", ".", "c">>, <<"standard">>, <<"local">> >>),
    Line(<< <<"hints", ".", "c">>, <<"standard">>, <<"local">> >>),
    Line(<< <<"vers", ".", "c">>, <<"standard">>, <<"local">> >>),
    Line(<< <<"vnode_if", ".", "c">>, <<"standard">>, <<"local">> >>) >>

\* index of the first blank-then-'#' in line with the given blank, 0 when there is none
RECURSIVE FindCommentFrom(_, _, _)
FindCommentFrom(line, blank, i) ==
    IF i + 1 > Len(line) THEN 0
    ELSE IF line[i] = blank /\ line[i + 1] = "#" THEN i
    ELSE FindCommentFrom(line, blank, i + 1)

\* one iteration of the loop of Files.parse_data on state [files, prev_line, ok]
FilesLine(st, raw) ==
    IF raw # <<>> /\ raw[1] = "#" THEN st
    ELSE
    LET c1 == FindCommentFrom(raw, " ", 1)
        comment == IF c1 = 0 THEN FindCommentFrom(raw, "\t", 1) ELSE c1
        line == RStrip(IF comment # 0 THEN SubSeq(raw, 1, comment - 1) ELSE raw)
    IN
    IF line = <<>> THEN st
    ELSE IF line[Len(line)] = "\\"
    THEN [st EXCEPT !.prev_line = @ \o SubSeq(line, 1, Len(line) - 1)]
    ELSE LET r == File(st.prev_line \o line)
         IN IF r.ok
            THEN [st EXCEPT !.prev_line = <<>>, !.files = Append(@, r.file)]
            ELSE [st EXCEPT !.prev_line = <<>>, !.ok = FALSE]

\* Files.parse_data(data), data given as its lines
RECURSIVE FilesData(_, _)
FilesData(st, lines) ==
    IF lines = <<>> \/ ~st.ok THEN st
    ELSE FilesData(FilesLine(st, lines[1]), Tail(lines))

\* the five parse_data calls that end Files.__init__, on the list fs
RECURSIVE Synthetic(_, _)
Synthetic(fs, i) ==
    IF i > Len(SyntheticLines) THEN fs
    ELSE Synthetic(FilesData([files |-> fs, prev_line |-> <<>>, ok |-> TRUE],
                             <<SyntheticLines[i]>>).files, i + 1)

-----------------------------------------------------------------------------
(* BuildRules: the constants of the class *)

\* CFLAGS: of the flags of the source, in its order, those the model keeps
CFLAGS == << <<"-O2">>, <<"-pipe">>, <<"-fno-common">>, <<"-Wall">>, <<"-Wcast-qual">>,
             <<"-std=iso9899:1999">> >>

Edge(obj, implicit_outs, rule, deps, implicit_deps, order_deps, variables) ==
    [obj |-> obj, implicit_outs |-> implicit_outs, rule |-> rule, deps |-> deps,
     implicit_deps |-> implicit_deps, order_deps |-> order_deps, variables |-> variables]

VnodeIfAwk == <<"$S", "/", "tools", "/", "vnode_if", ".", "awk">>
VnodeIfSrc == <<"$S", "/", "kern", "/", "vnode_if", ".", "src">>
MakeobjopsAwk == <<"$S", "/", "tools", "/", "makeobjops", ".", "awk">>
GenassymEnv == << <<"env", <<"NM='nm' NMFLAGS=''">>>> >>

DEFAULT_BUILDS == <<
    Edge(<<"machine">>, <<>>, <<"ilink">>, << <<"$S", "/", "$MACHINE", "/", "include">> >>,
         <<>>, <<>>, <<>>),
    Edge(<<"x86">>, <<>>, <<"ilink">>, << <<"$S", "/", "x86", "/", "include">> >>,
         <<>>, <<>>, <<>>),
    Edge(<<"vnode_if", ".", "h">>, <<>>, <<"awk">>, <<VnodeIfAwk, VnodeIfSrc>>,
         <<>>, <<>>, << <<"args", <<"-h">>>> >>),
    Edge(<<"vnode_if_newproto", ".", "h">>, <<>>, <<"awk">>, <<VnodeIfAwk, VnodeIfSrc>>,
         <<>>, <<>>, << <<"args", <<"-p">>>> >>),
    Edge(<<"vnode_if_typedef", ".", "h">>, <<>>, <<"awk">>, <<VnodeIfAwk, VnodeIfSrc>>,
         <<>>, <<>>, << <<"args", <<"-q">>>> >>),
    Edge(<<"vnode_if", ".", "c">>, <<>>, <<"awk">>, <<VnodeIfAwk, VnodeIfSrc>>,
         <<>>, <<>>, << <<"args", <<"-c">>>> >>),
    Edge(<<"genassym", ".", "o">>, <<>>, <<"cc">>,
         << <<"$S", "/", "$MACHINE", "/", "$MACHINE", "/", "genassym", ".", "c">> >>,
         <<>>, <<>>, << <<"CFLAGS", <<"$CFLAGS_GENASSYM">>>> >>),
    Edge(<<"assym", ".", "s">>, <<>>, <<"sh_stdout">>,
         << <<"$S", "/", "kern", "/", "genassym", ".", "sh">>, <<"genassym", ".", "o">> >>,
         <<>>, <<>>, GenassymEnv),
    Edge(<<"hack", ".", "pico">>, <<>>, <<"hack">>, <<>>, <<>>, <<>>, <<>>) >>

DEFAULT_IMPLICIT_DEPS == << <<"vnode_if", ".", "h">> >>

\* the rules of DEFAULT_RULE_DEFINITIONS, each with its variables, in declaration order
DEFAULT_RULE_DEFINITIONS == <<
    << <<"as">>, << <<"command", <<"cc -c $ASM_CFLAGS $in">>>> >> >>,
    << <<"awk">>, << <<"command", <<"awk -f $in $args">>>> >> >>,
    << <<"awk_stdout">>, << <<"command", <<"awk -f $in $args > $out">>>> >> >>,
    << <<"cc">>, << <<"command", <<"$CC -c $CFLAGS $in">>>>, <<"deps", <<"gcc">>>>,
                    <<"depfile", <<".depend.$out">>>> >> >>,
    << <<"freebsd-config">>, << <<"command", <<"freebsd-config -b . $in">>>>,
                                <<"generator", <<"1">>>> >> >>,
    << <<"hack">>, << <<"command", <<"touch hack.c && $CC -shared -nostdlib --target=x86_64-unknown-freebsd -fuse-ld=/Users/benno/src/llvm-build/bin/ld.lld hack.c -o $out && rm -f hack.c">>>> >> >>,
    << <<"ilink">>, << <<"command", <<"ln -fhs $in $out">>>> >> >>,
    << <<"ld">>, << <<"command", <<"$LD -Bdynamic -T $S/conf/ldscript.$MACHINE --no-warn-mismatch --warn-common --export-dynamic --dynamic-linker /red/herring -o $out -X $in">>>> >> >>,
    << <<"sh_stdout">>, << <<"command", <<"$env sh $in > $out">>>> >> >>,
    << <<"extract_debug">>, << <<"command", <<"$OBJCOPY --only-keep-debug $in $out">>>> >> >>,
    << <<"strip_debug">>,
       << <<"command", <<"$OBJCOPY --strip-debug --add-gnu-debuglink=kernel.debug $in $out">>>> >> >> >>

DEFAULT_VARS == <<
    <<"ASM_CFLAGS", <<"-x assembler-with-cpp -DLOCORE $CFLAGS">>>>,
    <<"OBJCOPY", <<"gobjcopy">>>>,
    <<"NM", <<"nm">>>>,
    <<"CC", <<"cc">>>>,
    <<"LD", <<"/Users/benno/src/llvm-build/bin/ld.lld">>>> >>

\* the source tree given to BuildRules as vars['S']
SourceTree == <<"/usr/src/sys">>

-----------------------------------------------------------------------------
(* BuildRules: paths and recipes *)

\* index of the last atom of s equal to c, 0 when there is none
RECURSIVE RFindFrom(_, _, _)
RFindFrom(s, c, i) ==
    IF i < 1 THEN 0 ELSE IF s[i] = c THEN i ELSE RFindFrom(s, c, i - 1)
RFind(s, c) == RFindFrom(s, c, Len(s))

\* filename.rsplit('.', 1): its length, and its element [1] when there is one
HasExtension(filename) == RFind(filename, ".") # 0
Extension(filename) == SubSeq(filename, RFind(filename, ".") + 1, Len(filename))

\* os.path.split(filename)[1]
Basename(filename) == SubSeq(filename, RFind(filename, "/") + 1, Len(filename))

\* obj[:-1] + c
ReplaceLast_append(obj, c) == obj \o <<c>>
ReplaceLast(obj, c) == SubSeq(obj, 1, Len(obj) - 1) \o <<c>>

InSourceTree_bare(path) == path
InSourceTree(path) == <<"$S", "/">> \o path

\* s.split(' '): the pieces between single blanks
RECURSIVE SplitOnAcc(_, _, _)
SplitOnAcc(s, word, acc) ==
    IF s = <<>> THEN Append(acc, word)
    ELSE IF s[1] = " " THEN SplitOnAcc(Tail(s), <<>>, Append(acc, word))
    ELSE SplitOnAcc(Tail(s), Append(word, s[1]), acc)
SplitOn(s) == SplitOnAcc(s, <<>>, <<>>)

\* the atoms that begin with ${NORMAL_C, with the flag edits each carries
NormalCAtoms == {"${NORMAL_C}", "${NORMAL_C:N-Wcast-qual}"}
\* the argument list after 'NORMAL_C:' in an atom, None when the atom has none
NormalCEdits(atom) ==
    IF atom = "${NORMAL_C:N-Wcast-qual}" THEN Some(<< <<"N", "-Wcast-qual">> >>) ELSE None
\* the argument list after 'CFLAGS:' in an atom, None when the atom has none
CflagsEdits(atom) ==
    IF atom = "${CFLAGS:N-Wall}" THEN Some(<< <<"N", "-Wall">> >>) ELSE None

\* the patterns of PATTERNS, in registration order, on the recipe string s:
\* each Match operator is regex.match(s), each Rule operator the processor
awk_stdout_Match(s) ==
    LET w == SplitOn(s) IN
    /\ Len(w) >= 6
    /\ w[1] = <<"${AWK}">> /\ w[2] = <<"-f">> /\ w[3] # <<>> /\ w[4] # <<>>
    /\ w[5] = <<">">> /\ w[6] # <<>>
awk_stdout_rule(f, s) ==
    LET w == SplitOn(s)
    IN [ok |-> TRUE, build |-> Edge(w[6], <<>>, <<"awk_stdout">>, <<w[3], w[4]>>, <<>>, <<>>, <<>>)]

awk_Match(s) ==
    LET w == SplitOn(s) IN
    /\ Len(w) >= 4
    /\ w[1] = <<"${AWK}">> /\ w[2] = <<"-f">> /\ w[3] # <<>> /\ w[4] # <<>>
awk_rule(f, s) ==
    LET w == SplitOn(s)
    IN [ok |-> TRUE,
        build |-> Edge(f.filename[1], <<>>, <<"awk">>, <<w[3], w[4]>>, <<>>, <<>>, <<>>)]

NoEdge == Edge(<<>>, <<>>, <<>>, <<>>, <<>>, <<>>, <<>>)

as_Match(s) == s # <<>> /\ s[1] = "${NORMAL_S}"
as_rule(f, s) ==
    IF f.dependencies = <<>> THEN [ok |-> FALSE, build |-> NoEdge]
    ELSE [ok |-> TRUE,
          build |-> Edge(f.filename[1], <<>>, <<"as">>, <<f.dependencies[1]>>,
                         Tail(f.dependencies), <<>>, <<>>)]

cc_Match(s) == s # <<>> /\ s[1] = "${CC}"
normal_c_Match(s) == s # <<>> /\ s[1] \in NormalCAtoms

\* the flag edits of cc_rule: 'N' + a flag removes that flag
RECURSIVE ApplyEdits(_, _)
ApplyEdits(cflags, edits) ==
    IF edits = <<>> THEN cflags
    ELSE LET arg == edits[1]
         IN ApplyEdits(IF arg[1] = "N"
                       THEN SelectSeq(cflags, LAMBDA x : x # Tail(arg))
                       ELSE cflags,
                       Tail(edits))
\* re.match('.*NORMAL_C:(.*?)\}') and re.match('.*CFLAGS:(.*?)\}'): the edits of the
\* last atom of s that carries some, None when no atom does
RECURSIVE LastNormalCEdits(_, _)
LastNormalCEdits(s, i) ==
    IF i < 1 THEN None
    ELSE IF NormalCEdits(s[i]) # None THEN NormalCEdits(s[i]) ELSE LastNormalCEdits(s, i - 1)
RECURSIVE LastCflagsEdits(_, _)
LastCflagsEdits(s, i) ==
    IF i < 1 THEN None
    ELSE IF CflagsEdits(s[i]) # None THEN CflagsEdits(s[i]) ELSE LastCflagsEdits(s, i - 1)
cc_rule(f, s) ==
    LET isNormalC == \E i \in 1..Len(s) : s[i] \in NormalCAtoms
        args == IF isNormalC THEN LastNormalCEdits(s, Len(s)) ELSE LastCflagsEdits(s, Len(s))
        base == IF isNormalC THEN CFLAGS \o Tail(Split(s)) ELSE CFLAGS
        cflags == IF args # None THEN ApplyEdits(base, args[1]) ELSE base
        variables == << <<"CFLAGS", Join(cflags, <<" ">>)>> >>
    IN IF isNormalC
       THEN [ok |-> TRUE,
             build |-> Edge(ReplaceLast(Basename(f.filename[1]), "o"), <<>>, <<"cc">>,
                            <<InSourceTree(f.filename[1])>>, <<>>, <<>>, variables)]
       ELSE IF f.dependencies = <<>> THEN [ok |-> FALSE, build |-> NoEdge]
       ELSE [ok |-> TRUE,
             build |-> Edge(f.filename[1], <<>>, <<"cc">>, <<f.dependencies[1]>>,
                            Tail(f.dependencies), <<>>, variables)]

GenassymSh == <<"$S/kern/genassym.sh">>
\* the last word that ends with $S/kern/genassym.sh and has a word after it, 0 when none
RECURSIVE LastGenassym(_, _)
LastGenassym(w, i) ==
    IF i < 1 THEN 0
    ELSE IF EndsWith(w[i], GenassymSh) /\ w[i + 1] # <<>> THEN i
    ELSE LastGenassym(w, i - 1)
genassym_Match(s) == LastGenassym(SplitOn(s), Len(SplitOn(s)) - 1) # 0
genassym_rule(f, s) ==
    LET w == SplitOn(s)
        i == LastGenassym(w, Len(w) - 1)
    IN [ok |-> TRUE,
        build |-> Edge(f.filename[1], <<>>, <<"sh_stdout">>, <<GenassymSh, w[i + 1]>>,
                       <<>>, <<>>, GenassymEnv)]

MatchPatterns_awkFirst(f, s) ==
    LET hit(r) == [matched |-> TRUE, ok |-> r.ok, build |-> r.build] IN
    IF awk_Match(s) THEN hit(awk_rule(f, s))
    ELSE IF awk_stdout_Match(s) THEN hit(awk_stdout_rule(f, s))
    ELSE IF as_Match(s) THEN hit(as_rule(f, s))
    ELSE IF cc_Match(s) THEN hit(cc_rule(f, s))
    ELSE IF normal_c_Match(s) THEN hit(cc_rule(f, s))
    ELSE IF genassym_Match(s) THEN hit(genassym_rule(f, s))
    ELSE [matched |-> FALSE, ok |-> TRUE, build |-> NoEdge]
\* the for loop over PATTERNS: the first pattern that matches builds the edge;
\* [matched, ok, build], ok FALSE when the processor raised
MatchPatterns(f, s) ==
    LET hit(r) == [matched |-> TRUE, ok |-> r.ok, build |-> r.build] IN
    IF awk_stdout_Match(s) THEN hit(awk_stdout_rule(f, s))
    ELSE IF awk_Match(s) THEN hit(awk_rule(f, s))
    ELSE IF as_Match(s) THEN hit(as_rule(f, s))
    ELSE IF cc_Match(s) THEN hit(cc_rule(f, s))
    ELSE IF normal_c_Match(s) THEN hit(cc_rule(f, s))
    ELSE IF genassym_Match(s) THEN hit(genassym_rule(f, s))
    ELSE [matched |-> FALSE, ok |-> TRUE, build |-> NoEdge]

\* the three rewrites of the opaque-command fallback, on one atom: a ${...}
\* placeholder is one atom
RewriteAtom(c) ==
    CASE c = "${.IMPSRC}" -> "$in"
      [] c = "${.TARGET}" -> "$out"
      [] c = "${LD}" -> "$LD"
      [] c = "${OBJCOPY}" -> "$OBJCOPY"
      [] OTHER -> c
RewriteRecipe(s) == [i \in 1..Len(s) |-> RewriteAtom(s[i])]

-----------------------------------------------------------------------------
(* BuildRules.generate_rules: one entry of the for loop *)

\* what one iteration adds: [err, early, normal, before, objs, rules, rule_counter]
Added(early, normal, before, objsAdded, rs, counter) ==
    [err |-> None, early |-> early, normal |-> normal, before |-> before,
     objs |-> objsAdded, rules |-> rs, rule_counter |-> counter]
Raised_skip(kind, rs, counter) == Added(<<>>, <<>>, <<>>, <<>>, rs, counter)
Raised(kind, rs, counter) ==
    [err |-> Some(kind), early |-> <<>>, normal |-> <<>>, before |-> <<>>,
     objs |-> <<>>, rules |-> rs, rule_counter |-> counter]

Place_linked(f, build, rs, counter) ==
    IF f.before_depend
    THEN Added(<<build>>, <<>>, <<build.obj>>, <<build.obj>>, rs, counter)
    ELSE Added(<<>>, <<build>>, <<>>, <<build.obj>>, rs, counter)
Place_byName(f, build, rs, counter) ==
    IF f.before_depend
    THEN Added(<<build>>, <<>>, <<build.obj>>, IF f.obj THEN <<f.filename[1]>> ELSE <<>>,
               rs, counter)
    ELSE Added(<<>>, <<build>>, <<>>, IF f.obj THEN <<f.filename[1]>> ELSE <<>>, rs, counter)
\* where the edge of an entry with a custom recipe goes
Place(f, build, rs, counter) ==
    IF f.before_depend
    THEN Added(<<build>>, <<>>, <<build.obj>>, IF f.obj THEN <<build.obj>> ELSE <<>>,
               rs, counter)
    ELSE Added(<<>>, <<build>>, <<>>, IF f.obj THEN <<build.obj>> ELSE <<>>, rs, counter)

\* an entry without compile_with: dispatch on the extension
ByExtension(f, rs, counter) ==
    LET filename == f.filename[1]
        base == Basename(filename)
        obj == ReplaceLast(base, "o")
        linked == IF f.obj THEN <<obj>> ELSE <<>>
    IN
    IF ~HasExtension(filename) THEN Raised("IndexError", rs, counter)
    ELSE IF Extension(filename) = <<"c">>
    THEN Added(<<>>,
               <<Edge(obj, <<>>, <<"cc">>,
                      <<IF f.local THEN filename ELSE InSourceTree(filename)>>,
                      <<>>, <<>>, <<>>)>>,
               <<>>, linked, rs, counter)
    ELSE IF Extension(filename) = <<"m">>
    THEN LET c_obj == ReplaceLast(base, "c")
             h_obj == ReplaceLast(base, "h")
         IN Added(<<Edge(h_obj, <<>>, <<"awk">>, <<MakeobjopsAwk, InSourceTree(filename)>>,
                         <<>>, <<>>, << <<"args", <<"-h">>>> >>)>>,
                  <<Edge(c_obj, <<>>, <<"awk">>, <<MakeobjopsAwk, InSourceTree(filename)>>,
                         <<>>, <<>>, << <<"args", <<"-c">>>> >>),
                    Edge(obj, <<>>, <<"cc">>, <<c_obj>>, <<>>, <<>>, <<>>)>>,
                  <<h_obj>>, linked, rs, counter)
    ELSE IF Extension(filename) = <<"S">>
    THEN Added(<<>>,
               <<Edge(obj, <<>>, <<"as">>, <<InSourceTree(filename)>>, <<>>, <<>>, <<>>)>>,
               <<>>, linked, rs, counter)
    ELSE Raised("ConfigError", rs, counter)

\* the name of the rule for a command of the fallback, and the table after it
RuleName(n) == <<"rule", ToString(n)>>
Intern_always(rs, counter, rule) ==
    [name |-> RuleName(counter), rules |-> Append(rs, <<rule, RuleName(counter)>>),
     rule_counter |-> counter + 1]
Intern_stale(rs, counter, rule) ==
    IF HasKey(rs, rule)
    THEN [name |-> Get(rs, rule), rules |-> rs, rule_counter |-> counter]
    ELSE [name |-> RuleName(counter), rules |-> Put(rs, rule, RuleName(counter)),
          rule_counter |-> counter]
Intern(rs, counter, rule) ==
    IF HasKey(rs, rule)
    THEN [name |-> Get(rs, rule), rules |-> rs, rule_counter |-> counter]
    ELSE [name |-> RuleName(counter), rules |-> Put(rs, rule, RuleName(counter)),
          rule_counter |-> counter + 1]

\* an entry with compile_with: the patterns, then the fallback
ByRecipe(f, rs, counter) ==
    LET s == f.compile_with[1]
        m == MatchPatterns(f, s)
    IN IF m.matched
       THEN IF m.ok THEN Place(f, m.build, rs, counter)
            ELSE Raised("IndexError", rs, counter)
       ELSE LET r == Intern(rs, counter, RewriteRecipe(s))
            IN Place(f, Edge(f.filename[1], <<>>, r.name, f.dependencies, <<>>, <<>>, <<>>),
                     r.rules, r.rule_counter)

\* the tests that skip an entry
Skipped_never(f, k) == FALSE
Skipped(f, k) == ~configured(f, k) \/ f.profiling

\* if not f.compile_with
NoRecipe(f) == f.compile_with = None \/ f.compile_with[1] = <<>>

\* the body of the for loop for entry f
ProcessEntry(f, k, rs, counter) ==
    IF Skipped(f, k) THEN Added(<<>>, <<>>, <<>>, <<>>, rs, counter)
    ELSE IF NoRecipe(f) THEN ByExtension(f, rs, counter)
    ELSE ByRecipe(f, rs, counter)

-----------------------------------------------------------------------------
(* BuildRules.generate_rules: the build file *)

\* str(x) of an attribute that may be None
Display(opt) == IF opt = None THEN <<"None">> ELSE opt[1]

\* the lines of the build file.  A build line records each optional segment of
\* the text by a flag (the segment is written) and its list; section is the
\* part of generate_rules that wrote the line, not text of the file
VarLine(name, value) == [kind |-> "var", name |-> name, value |-> value]
BlankLine == [kind |-> "blank"]
RuleLine(name) == [kind |-> "rule", name |-> name]
IndentedLine(name, value) == [kind |-> "indented", name |-> name, value |-> value]
BuildLine(section, obj, implicit_outs, rule, deps, has_implicit, implicit_deps, order_deps) ==
    [kind |-> "build", section |-> section, obj |-> obj,
     has_implicit_outs |-> implicit_outs # <<>>, implicit_outs |-> implicit_outs,
     rule |-> rule, deps |-> deps,
     has_implicit |-> has_implicit, implicit_deps |-> implicit_deps,
     has_order |-> order_deps # <<>>, order_deps |-> order_deps]

Indented(d) == [i \in 1..Len(d) |-> IndentedLine(d[i][1], d[i][2])]

\* the lines of one edge of early_builds
EarlyLines(e) ==
    <<BuildLine("early", e.obj, e.implicit_outs, e.rule, e.deps,
                e.implicit_deps # <<>>, e.implicit_deps, e.order_deps)>>
    \o Indented(e.variables)
\* the lines of one edge of builds
NormalLines_own(e, before) ==
    <<BuildLine("normal", e.obj, e.implicit_outs, e.rule, e.deps,
                e.implicit_deps # <<>>, e.implicit_deps, e.order_deps)>>
    \o Indented(e.variables)
NormalLines(e, before) ==
    <<BuildLine("normal", e.obj, e.implicit_outs, e.rule, e.deps,
                TRUE, before \o e.implicit_deps, e.order_deps)>>
    \o Indented(e.variables)

RECURSIVE Flatten(_)
Flatten(ss) == IF ss = <<>> THEN <<>> ELSE ss[1] \o Flatten(Tail(ss))

VarLines(d) == [i \in 1..Len(d) |-> VarLine(d[i][1], d[i][2])]
DefaultRuleLines ==
    Flatten([i \in 1..Len(DEFAULT_RULE_DEFINITIONS) |->
                <<RuleLine(DEFAULT_RULE_DEFINITIONS[i][1])>>
                \o Indented(DEFAULT_RULE_DEFINITIONS[i][2])])
NewversLines(k) ==
    <<RuleLine(<<"newvers">>),
      IndentedLine("command",
                   <<"MAKE=./versmake.sh sh $S/conf/newvers.sh", " ">> \o Display(k.ident))>>
SynthesizedRuleLines(rs) ==
    Flatten([i \in 1..Len(rs) |-> <<RuleLine(rs[i][2]), IndentedLine("command", rs[i][1])>>])

KernelFull == <<"kernel", ".", "full">>
KernelDebug == <<"kernel", ".", "debug">>
TrailingLines(os) ==
    <<BuildLine("trailing", <<"vers", ".", "c">>, << <<"version">> >>, <<"newvers">>,
                <<>>, FALSE, <<>>, <<>>),
      BuildLine("trailing", KernelFull, <<>>, <<"ld">>, os, FALSE, <<>>, <<>>),
      BuildLine("trailing", KernelDebug, <<>>, <<"extract_debug">>, <<KernelFull>>,
                FALSE, <<>>, <<>>),
      BuildLine("trailing", <<"kernel">>, <<>>, <<"strip_debug">>, <<KernelFull>>,
                TRUE, <<KernelDebug>>, <<>>),
      BlankLine,
      BuildLine("regenerate", <<"build", ".", "ninja">>, <<>>, <<"freebsd-config">>,
                << <<"$KERNEL_CONFIG">> >>, FALSE, <<>>, <<>>)>>

MachineLine(k) == VarLine("MACHINE", Display(k.machine))

BuildFile_rulesLast(k, vs, rs, early, normal, before, os) ==
    <<MachineLine(k), VarLine("S", Get(vs, "S")), VarLine("CFLAGS", Get(vs, "CFLAGS"))>>
    \o VarLines(Pop(Pop(vs, "S"), "CFLAGS"))
    \o <<BlankLine>>
    \o DefaultRuleLines \o NewversLines(k)
    \o <<BlankLine>>
    \o Flatten([i \in 1..Len(early) |-> EarlyLines(early[i])])
    \o Flatten([i \in 1..Len(normal) |-> NormalLines(normal[i], before)])
    \o SynthesizedRuleLines(rs)
    \o TrailingLines(os)
\* everything the with block writes when no pop raises; vs is self.vars on entry
BuildFile(k, vs, rs, early, normal, before, os) ==
    <<MachineLine(k), VarLine("S", Get(vs, "S")), VarLine("CFLAGS", Get(vs, "CFLAGS"))>>
    \o VarLines(Pop(Pop(vs, "S"), "CFLAGS"))
    \o <<BlankLine>>
    \o DefaultRuleLines \o NewversLines(k) \o SynthesizedRuleLines(rs)
    \o <<BlankLine>>
    \o Flatten([i \in 1..Len(early) |-> EarlyLines(early[i])])
    \o Flatten([i \in 1..Len(normal) |-> NormalLines(normal[i], before)])
    \o TrailingLines(os)

-----------------------------------------------------------------------------
(* BuildRules: the actions *)

\* BuildRules.__init__ with vars = {'S': ...}, as generate() constructs it
NewVars == Put(DEFAULT_VARS, "S", SourceTree)

GenStart_fileFirst ==
    /\ unit = "BuildRules"
    /\ pc \in {"idle", "done", "aborted"}
    /\ calls < MaxCalls
    /\ calls' = calls + 1
    /\ prevOut' = IF pc = "done" THEN Some(out) ELSE prevOut
    /\ rules' = <<>>
    /\ rule_counter' = 0
    /\ early_builds' = DEFAULT_BUILDS
    /\ builds' = <<>>
    /\ before_depends' = <<>>
    /\ objs' = << <<"locore", ".", "o">> >>
    /\ vars' = Put(Put(Put(vars, "CFLAGS", Join(CFLAGS, <<" ">>)),
                       "CFLAGS_GENASSYM",
                       Join(SelectSeq(CFLAGS, LAMBDA x : x \notin {<<"-flto">>, <<"-fno-common">>}),
                            <<" ">>)),
                   "KERNEL_CONFIG", ConfigFilename)
    /\ idx' = 1
    /\ err' = None
    /\ pc' = "loop"
    /\ opens' = opens + 1
    /\ out' = <<>>
    /\ UNCHANGED <<optVars, unit, cfgVars, fileVars>>

\* generate_rules up to the for loop
GenStart ==
    /\ unit = "BuildRules"
    /\ pc \in {"idle", "done", "aborted"}
    /\ calls < MaxCalls
    /\ calls' = calls + 1
    /\ prevOut' = IF pc = "done" THEN Some(out) ELSE prevOut
    /\ rules' = <<>>
    /\ rule_counter' = 0
    /\ early_builds' = DEFAULT_BUILDS
    /\ builds' = <<>>
    /\ before_depends' = <<>>
    /\ objs' = << <<"locore", ".", "o">> >>
    /\ vars' = Put(Put(Put(vars, "CFLAGS", Join(CFLAGS, <<" ">>)),
                       "CFLAGS_GENASSYM",
                       Join(SelectSeq(CFLAGS, LAMBDA x : x \notin {<<"-flto">>, <<"-fno-common">>}),
                            <<" ">>)),
                   "KERNEL_CONFIG", ConfigFilename)
    /\ idx' = 1
    /\ err' = None
    /\ pc' = "loop"
    /\ UNCHANGED <<optVars, unit, cfgVars, fileVars, out, opens>>

GenEntry_inPlace ==
    /\ unit = "BuildRules"
    /\ pc = "loop"
    /\ idx <= Len(files)
    /\ LET r == ProcessEntry(files[idx], config, rules, rule_counter)
       IN /\ rules' = r.rules
          /\ rule_counter' = r.rule_counter
          /\ early_builds' = early_builds \o r.early
          /\ builds' = builds \o r.normal
          /\ before_depends' = before_depends \o r.before
          /\ objs' = objs \o r.objs
          /\ err' = r.err
          /\ pc' = IF r.err = None THEN "loop" ELSE "aborted"
    /\ idx' = idx + 1
    /\ files' = [files EXCEPT ![idx].dependencies = IF @ = <<>> THEN @ ELSE Tail(@)]
    /\ UNCHANGED <<optVars, unit, cfgVars, prev_line, mfFile, mfLines, mfLast, mfErr, vars, out,
                   opens, calls, prevOut>>

\* one iteration of the for loop
GenEntry ==
    /\ unit = "BuildRules"
    /\ pc = "loop"
    /\ idx <= Len(files)
    /\ LET r == ProcessEntry(files[idx], config, rules, rule_counter)
       IN /\ rules' = r.rules
          /\ rule_counter' = r.rule_counter
          /\ early_builds' = early_builds \o r.early
          /\ builds' = builds \o r.normal
          /\ before_depends' = before_depends \o r.before
          /\ objs' = objs \o r.objs
          /\ err' = r.err
          /\ pc' = IF r.err = None THEN "loop" ELSE "aborted"
    /\ idx' = idx + 1
    /\ UNCHANGED <<optVars, unit, cfgVars, fileVars, vars, out, opens, calls, prevOut>>

\* generate_rules after the for loop: the last object, then the with block
GenWrite ==
    /\ unit = "BuildRules"
    /\ pc = "loop"
    /\ idx > Len(files)
    /\ objs' = Append(objs, <<"hack", ".", "pico">>)
    /\ opens' = opens + 1
    /\ IF HasKey(vars, "S")
       THEN /\ out' = BuildFile(config, vars, rules, early_builds, builds, before_depends, objs')
            /\ vars' = Pop(Pop(vars, "S"), "CFLAGS")
            /\ pc' = "done"
            /\ err' = None
       ELSE /\ out' = <<MachineLine(config)>>
            /\ vars' = vars
            /\ pc' = "aborted"
            /\ err' = Some("KeyError")
    /\ UNCHANGED <<optVars, unit, cfgVars, fileVars, idx, rules, rule_counter, early_builds, builds,
                   before_depends, calls, prevOut>>

\* the state of BuildRules before any call
GenIdle ==
    /\ vars = NewVars
    /\ pc = "idle"
    /\ idx = 0
    /\ rules = <<>>
    /\ rule_counter = 0
    /\ early_builds = <<>>
    /\ builds = <<>>
    /\ before_depends = <<>>
    /\ objs = <<>>
    /\ out = <<>>
    /\ opens = 0
    /\ err = None
    /\ calls = 0
    /\ prevOut = None

-----------------------------------------------------------------------------
(* The inputs of the model *)

Q == "\""
std == <<"standard">>
opt == <<"optional">>
cw == <<"compile-with">>

\* manifest lines of entries that parse
EntryLines == {
    Line(<< <<"d", "/", "f", ".", "c">>, std >>),
    Line(<< <<"r">>, std >>),
    Line(<< <<"p", ".", "c">>, std, <<"profiling-routine">> >>),
    Line(<< <<"k", ".", "m">>, opt, <<"a">>, <<"|">>, <<"!", "b">> >>),
    Line(<< <<"x", ".", "c">>, std, <<"before-depend">> >>),
    Line(<< <<"u", ".", "x">>, opt, <<"b">> >>),
    Line(<< <<"v", ".", "x">>, std, <<"profiling-routine">> >>),
    Line(<< <<"h", ".", "h">>, std, cw, <<Q, "${AWK}">>, <<"-f">>, <<"p">>, <<"q", Q>>,
            <<"before-depend">> >>),
    Line(<< <<"y", ".", "o">>, opt, <<"a">>, cw, <<Q, "${LD}">>, <<"-o">>, <<"${.TARGET}">>,
            <<"${.IMPSRC}", Q>>, <<"dependency">>, <<"z", ".", "c">> >>),
    Line(<< <<"w", ".", "o">>, std, cw, <<Q, "$LD">>, <<"-o">>, <<"$out">>, <<"$in", Q>>,
            <<"dependency">>, <<Q, "z", ".", "c", Q>>, <<"before-depend">>, <<"no-obj">> >>),
    Line(<< <<"t", ".", "o">>, std, cw, <<Q, "${OBJCOPY}">>, <<"t", Q>>, <<"no-obj">> >>),
    Line(<< <<"g", ".", "h">>, std, cw, <<Q, "${AWK}">>, <<"-f">>, <<"p">>, <<"q">>, <<">">>,
            <<"r", ".", "c", Q>> >>),
    Line(<< <<"e", ".", "c">>, opt, <<"|">>, <<"a">> >>),
    Line(<< <<"g", ".", "c">>, opt, <<"!">> >>),
    Line(<< <<"n", ".", "o">>, opt, <<"b">>, cw, <<"${NORMAL_S}">> >>) }

\* the other lines a manifest file may hold
OtherLines == {
    <<"#", " ", "comment">>,
    <<>>,
    Line(<< <<"f", ".", "c">>, std, <<"\t", "#">>, <<"note">> >>),
    Line(<< <<"c", ".", "c">>, opt, <<"a">>, <<"\\">> >>),
    Line(<< <<"f", ".", "c">>, <<"mandatory">> >>),
    Line(<< <<"f", ".", "c">>, std, <<"no-obj">>, <<"obsolete">>, <<"x">> >>),
    <<"f", ".", "c">>,
    Line(<< <<"x", "/", "ia32_genassym", ".", "o">>, opt, <<"a">>, <<"no-obj">> >>),
    Line(<< <<"q", ".", "o">>, std, cw, <<Q, "${LD}">>, <<"x">>, <<"no-obj">> >>),
    Line(<< <<"s", ".", "o">>, std, cw, <<"${LD}">>, <<"x">> >>) }

RawLines == EntryLines \cup OtherLines

\* s folded over the lines of a configuration file
RECURSIVE ConfigData(_, _)
ConfigData(k, lines) ==
    IF lines = <<>> \/ k.err # None THEN k
    ELSE ConfigData(ConfigApply(k, lines[1]), Tail(lines))

\* the configurations the synthesizer is run on, each by the lines that build it
ConfigScripts == {
    << <<"machine", " ", "amd64">>, <<"ident", " ", "GENERIC">> >>,
    << <<"machine", " ", "amd64">>, <<"options", " ", "A">> >>,
    << <<"machine", " ", "amd64">>, <<"ident", " ", "GENERIC">>, <<"device", " ", "a">>,
       <<"options", " ", "B", "=", "2">> >>,
    << <<"ident", " ", "GENERIC">>, <<"device", " ", "b">> >> }
Configs == {ConfigData(NewConfig, sc) : sc \in ConfigScripts}

\* the manifests the synthesizer is run on: up to MaxEntries lines
Manifests == UNION {[1..n -> EntryLines] : n \in 0..MaxEntries}

\* Files(filenames) for one manifest file with the given lines
FilesOf(lines) ==
    Synthetic(FilesData([files |-> <<>>, prev_line |-> <<>>, ok |-> TRUE], lines).files, 1)

-----------------------------------------------------------------------------
(* Files: the actions *)

\* the next line of the manifest file being read
ManifestLine ==
    /\ unit = "Files"
    /\ mfErr = None
    /\ mfFile \in {1, 2}
    /\ mfLines < MaxManifestLines
    /\ \E raw \in RawLines :
         LET st == FilesLine([files |-> files, prev_line |-> prev_line, ok |-> TRUE], raw)
         IN /\ files' = st.files
            /\ prev_line' = st.prev_line
            /\ mfErr' = IF st.ok THEN None ELSE Some("ConfigError")
            /\ mfLast' = raw
    /\ mfLines' = mfLines + 1
    /\ UNCHANGED <<optVars, unit, cfgVars, mfFile, genVars>>

\* the end of a manifest file: the next file or, after the last, the five entries
\* that end Files.__init__
ManifestEndOfFile ==
    /\ unit = "Files"
    /\ mfErr = None
    /\ mfFile \in {1, 2}
    /\ mfFile' = mfFile + 1
    /\ prev_line' = <<>>
    /\ files' = IF mfFile = 2 THEN Synthetic(files, 1) ELSE files
    /\ UNCHANGED <<optVars, unit, cfgVars, mfLines, mfLast, mfErr, genVars>>

-----------------------------------------------------------------------------
(* Options: the option routing table and write_headers *)

\* lines of option tables the model reads
OptionLines == {
    <<"A">>,
    <<"B", " ", "opt_", "a", ".h">>,
    <<"DEV_", "A", " ", "opt_", "d", ".h">>,
    <<"#", " ", "A">>,
    <<"B", "\t", "#", " ", "opt_", "a", ".h">>,
    <<"A", " ", "b", " ", "c">> }

\* f'opt_{name.lower()}.h'
OptHeader(name) == <<"opt_">> \o Lower(name) \o <<".h">>

\* Options.__init__ before the first file is read
NewOptions == << <<<<"MAXUSERS">>, <<"opt_", "maxusers", ".h">>>> >>

\* one iteration of the loop of Options.parse_data
OptionsApply(t, line) ==
    IF line # <<>> /\ line[1] = "#" THEN t
    ELSE LET c == Find(line, "#")
             l == Strip(IF c # 0 THEN SubSeq(line, 1, c - 1) ELSE line)
             words == Split(l)
         IN IF l = <<>> THEN t
            ELSE IF Len(words) = 2 THEN Put(t, words[1], words[2])
            ELSE Put(t, l, OptHeader(l))

\* the next line of an option table
OptionsLine ==
    /\ unit = "Options"
    /\ opc = "parse"
    /\ optLines < MaxTableLines
    /\ \E line \in OptionLines : table' = OptionsApply(table, line)
    /\ optLines' = optLines + 1
    /\ UNCHANGED <<unit, cfgVars, fileVars, genVars, opc, oidx, optfiles, headers>>

\* {filename: [] for filename in self.values()}
RECURSIVE EmptyLists(_)
EmptyLists(t) ==
    IF t = <<>> THEN <<>> ELSE Put(EmptyLists(SubSeq(t, 1, Len(t) - 1)), t[Len(t)][2], <<>>)

\* write_headers up to the loop over config.options
WriteHeadersStart ==
    /\ unit = "Options"
    /\ opc = "parse"
    /\ optfiles' = EmptyLists(table)
    /\ oidx' = 1
    /\ opc' = "route"
    /\ UNCHANGED <<unit, cfgVars, fileVars, genVars, table, optLines, headers>>

\* option.startswith('DEV_')
IsDevOption(option) == option # <<>> /\ option[1] = "DEV_"

\* the body of the loop over config.options: the new optfiles, ok false on KeyError
RouteOne(t, of, option, value) ==
    IF ~HasKey(t, option) /\ IsDevOption(option)
    THEN [ok |-> TRUE, optfiles |-> Put(of, OptHeader(Tail(option)), << <<option, value>> >>)]
    ELSE IF ~HasKey(t, option) THEN [ok |-> FALSE, optfiles |-> of]
    ELSE [ok |-> TRUE,
          optfiles |-> Put(of, Get(t, option), Append(Get(of, Get(t, option)), <<option, value>>))]

\* one iteration of the loop over config.options
RouteOption ==
    /\ unit = "Options"
    /\ opc = "route"
    /\ oidx <= Len(config.options)
    /\ LET r == RouteOne(table, optfiles, config.options[oidx][1], config.options[oidx][2])
       IN /\ optfiles' = r.optfiles
          /\ opc' = IF r.ok THEN "route" ELSE "aborted"
    /\ oidx' = oidx + 1
    /\ UNCHANGED <<unit, cfgVars, fileVars, genVars, table, optLines, headers>>

\* '#define option' followed by ' value' when the value is neither None nor empty
DefineLine(option, value) ==
    IF value = None \/ value[1] = <<>> THEN <<"#define", option>>
    ELSE <<"#define", option, value[1]>>

\* the loop that writes every file of optfiles
WriteFiles ==
    /\ unit = "Options"
    /\ opc = "route"
    /\ oidx > Len(config.options)
    /\ headers' = [i \in 1..Len(optfiles) |->
                     <<optfiles[i][1],
                       [n \in 1..Len(optfiles[i][2]) |->
                           DefineLine(optfiles[i][2][n][1], optfiles[i][2][n][2])]>>]
    /\ opc' = "written"
    /\ UNCHANGED <<unit, cfgVars, fileVars, genVars, table, optLines, oidx, optfiles>>

\* the state of Options before any line is read
OptIdle ==
    /\ table = NewOptions
    /\ optLines = 0
    /\ opc = "parse"
    /\ oidx = 0
    /\ optfiles = <<>>
    /\ headers = <<>>

\* the configurations write_headers is run on, each by the lines that build it
OptionScripts == {
    << <<"options", " ", "A">>, <<"device", " ", "a">> >>,
    << <<"device", " ", "a">>, <<"options", " ", "B", "=", "2">> >>,
    << <<"options", " ", "A">> >>,
    << <<"device", " ", "a">>, <<"device", " ", "A", "b">> >>,
    << <<"options", " ", "B", "=", "2">>, <<"options", " ", "A">> >>,
    << >> }
OptionConfigs == {ConfigData(NewConfig, sc) : sc \in OptionScripts}

-----------------------------------------------------------------------------
(* Specifications *)

\* the parsers: a behaviour constructs a KernelConfig or a Files from its input
ParseInit ==
    /\ unit \in {"KernelConfig", "Files"}
    /\ config = NewConfig
    /\ cfgFile = 1
    /\ cfgLines = 0
    /\ cfgLast = <<>>
    /\ files = <<>>
    /\ prev_line = <<>>
    /\ mfFile = 1
    /\ mfLines = 0
    /\ mfLast = <<>>
    /\ mfErr = None
    /\ GenIdle
    /\ OptIdle

ParseNext == ConfigLine \/ ConfigEndOfFile \/ ManifestLine \/ ManifestEndOfFile

SpecParse == ParseInit /\ [][ParseNext]_allVars

\* the synthesizer: a BuildRules over a parsed configuration and manifest
Init ==
    /\ unit = "BuildRules"
    /\ config \in Configs
    /\ cfgFile = 3
    /\ cfgLines = 0
    /\ cfgLast = <<>>
    /\ \E m \in Manifests : files = FilesOf(m)
    /\ prev_line = <<>>
    /\ mfFile = 3
    /\ mfLines = 0
    /\ mfLast = <<>>
    /\ mfErr = None
    /\ GenIdle
    /\ OptIdle

Next == GenStart \/ GenEntry \/ GenWrite

Spec == Init /\ [][Next]_allVars

\* the option headers: a behaviour constructs an Options and calls write_headers
\* with a configuration
OptionsInit ==
    /\ unit = "Options"
    /\ config \in OptionConfigs
    /\ cfgFile = 3
    /\ cfgLines = 0
    /\ cfgLast = <<>>
    /\ files = <<>>
    /\ prev_line = <<>>
    /\ mfFile = 1
    /\ mfLines = 0
    /\ mfLast = <<>>
    /\ mfErr = None
    /\ GenIdle
    /\ OptIdle

OptionsNext == OptionsLine \/ WriteHeadersStart \/ RouteOption \/ WriteFiles

SpecOptions == OptionsInit /\ [][OptionsNext]_allVars

-----------------------------------------------------------------------------
(* Properties of the synthesizer (Spec) *)

Entries == 1..Len(files)
BuildLines(section) ==
    {out[i] : i \in {j \in 1..Len(out) : out[j].kind = "build" /\ out[j].section = section}}
Outputs(edges) == {edges[i].obj : i \in 1..Len(edges)}

\* an item of a condition is satisfied in configuration k
Satisfied(item, k) ==
    LET bare(T) == Upper(T) \in Keys(k.options) \/ Lower(T) \in k.devices
    IN IF item[1] = "!" THEN ~bare(Tail(item)) ELSE bare(item)

\* C1: File.configured(K) is true iff the condition is empty or some conjunction
\* of it has every item satisfied, a bare item T being satisfied iff upper(T) is
\* a key of K.options or lower(T) is in K.devices, and !T iff T is not.
C1_Configured ==
    \A i \in Entries :
        configured(files[i], config)
        <=> \/ files[i].optional = <<>>
            \/ \E r \in 1..Len(files[i].optional) :
                 \A n \in 1..Len(files[i].optional[r]) :
                    Satisfied(files[i].optional[r][n], config)

\* the entry 'k.m optional a | !b' with a and b absent is included by its second
\* conjunction, and its edges are in the build file
C1_Witness ==
    /\ pc = "done"
    /\ \E i \in Entries :
         /\ files[i].optional = << << <<"a">> >>, << <<"!", "b">> >> >>
         /\ ~option_set(config.options, config.devices, <<"a">>)
         /\ ~option_set(config.options, config.devices, <<"b">>)
         /\ configured(files[i], config)
         /\ \E l \in BuildLines("normal") : l.obj = <<"k", ".", "o">>

\* C2: every name of before_depends is the output of an edge of early_builds and
\* is written among the implicit inputs of every normal-build line of the build
\* file, also of the lines of entries that come earlier in the manifest.
C2_BeforeDepends ==
    pc = "done" =>
        \A n \in 1..Len(before_depends) :
            /\ before_depends[n] \in Outputs(early_builds)
            /\ \E l \in BuildLines("early") : l.obj = before_depends[n]
            /\ \A l \in BuildLines("normal") :
                 l.has_implicit /\ before_depends[n] \in Range(l.implicit_deps)

\* a build file where the entry that adds to before_depends follows an entry
\* with a normal edge
C2_Witness ==
    /\ pc = "done"
    /\ Len(files) = 7
    /\ files[1].filename = Some(<<"d", "/", "f", ".", "c">>)
    /\ files[2].filename = Some(<<"h", ".", "h">>)
    /\ before_depends = << <<"h", ".", "h">> >>
    /\ \E l \in BuildLines("normal") : l.obj = <<"f", ".", "o">>

\* entry i is included and its recipe falls through to the opaque-command fallback
Fallback(i) ==
    /\ ~Skipped(files[i], config)
    /\ ~NoRecipe(files[i])
    /\ ~MatchPatterns(files[i], files[i].compile_with[1]).matched
\* the fallback command text of entry i
Command(i) == RewriteRecipe(files[i].compile_with[1])
\* the rule names on the build lines for output obj
RulesOf(obj) ==
    {l.rule : l \in {x \in BuildLines("early") \cup BuildLines("normal") : x.obj = obj}}
\* the places of the build file that declare a rule with the given command
Declarations(command) ==
    {p \in 2..Len(out) :
        /\ out[p].kind = "indented" /\ out[p].name = "command" /\ out[p].value = command
        /\ out[p - 1].kind = "rule"}

\* C3: two included entries that take the fallback with the same rewritten
\* command text have the same rule name on their edges, and the build file
\* declares exactly one rule for that command text, the one they name.
C3_SharedRule ==
    pc = "done" =>
        \A i, j \in Entries :
            (Fallback(i) /\ Fallback(j) /\ Command(i) = Command(j)) =>
                /\ Cardinality(RulesOf(files[i].filename[1])
                               \cup RulesOf(files[j].filename[1])) = 1
                /\ Cardinality(Declarations(Command(i))) = 1
                /\ \A p \in Declarations(Command(i)) :
                     out[p - 1].name \in RulesOf(files[i].filename[1])

\* two entries with different recipes and the same rewritten command share rule0
C3_Witness ==
    /\ pc = "done"
    /\ \E i, j \in Entries :
         /\ Fallback(i) /\ Fallback(j)
         /\ files[i].compile_with # files[j].compile_with
         /\ Command(i) = Command(j)
         /\ RulesOf(files[i].filename[1]) = {RuleName(0)}
         /\ RulesOf(files[j].filename[1]) = {RuleName(0)}
    /\ Len(rules) = 1

\* the output of the edge made for an included entry: the object of an entry
\* dispatched by extension, the edge of the pattern or fallback otherwise
PrimaryOutput(f) ==
    IF NoRecipe(f) THEN ReplaceLast(Basename(f.filename[1]), "o")
    ELSE LET r == ByRecipe(f, <<>>, 0) IN (r.early \o r.normal)[1].obj
\* entry i has been processed by the loop, was included and raised nothing
Built(i) ==
    /\ pc \in {"loop", "done"}
    /\ i < idx
    /\ ~Skipped(files[i], config)

\* C4: the edge of every included entry, dispatched by extension or by recipe,
\* is in early_builds with its output in before_depends when the entry is
\* flagged before_depend, and in builds otherwise.
C4_Placement ==
    \A i \in Entries :
        Built(i) =>
            IF files[i].before_depend
            THEN /\ PrimaryOutput(files[i]) \in Outputs(early_builds)
                 /\ PrimaryOutput(files[i]) \in Range(before_depends)
            ELSE PrimaryOutput(files[i]) \in Outputs(builds)

\* C5: the iteration of the loop for an entry whose condition is false or that
\* is flagged profiling adds no edge, no before_depends name, no rule, no link
\* input, and raises nothing.
C5_Skipped ==
    [][(pc = "loop" /\ idx <= Len(files) /\ idx' = idx + 1
        /\ (~configured(files[idx], config) \/ files[idx].profiling))
       => /\ UNCHANGED <<rules, rule_counter, early_builds, builds, before_depends, objs>>
          /\ err' = None
          /\ pc' = "loop"]_allVars

\* the loop has passed, without raising, an entry with a false condition and one
\* flagged profiling, each of which would be fatal if included
C5_Witness ==
    /\ pc = "done"
    /\ Len(files) = 7
    /\ files[1].filename = Some(<<"u", ".", "x">>)
    /\ ~configured(files[1], config)
    /\ files[2].filename = Some(<<"v", ".", "x">>)
    /\ files[2].profiling /\ configured(files[2], config)
    /\ Len(builds) = 5

\* C6: a second generate_rules call on the same object, after a call that
\* completed, completes too and leaves the same build file.
C6_Idempotent ==
    (calls >= 2 /\ prevOut # None /\ pc \in {"done", "aborted"}) =>
        (pc = "done" /\ out = prevOut[1])

\* C7: when a call aborts in the loop over the entries, the build file has not
\* been opened or written.
C7_NoPartialOutput ==
    (pc = "aborted" /\ err \in {Some("ConfigError"), Some("IndexError")}) =>
        (opens = 0 /\ out = <<>>)

\* a call that aborted on its second entry, after an entry that made an edge
C7_Witness ==
    /\ pc = "aborted"
    /\ err = Some("ConfigError")
    /\ idx = 3
    /\ Len(builds) = 1
    /\ opens = 0

\* a condition with an empty item: an empty conjunction or a bare '!'
Malformed(optional) ==
    \E r \in 1..Len(optional) :
        \/ optional[r] = <<>>
        \/ \E n \in 1..Len(optional[r]) : optional[r][n] = <<"!">>

\* C10: an optional spec with an empty item is a fatal error: no entry with such
\* a condition is ever evaluated by the synthesizer.
C10_MalformedFatal ==
    \A i \in Entries :
        (pc \in {"loop", "done"} /\ i < idx) => ~Malformed(files[i].optional)

-----------------------------------------------------------------------------
(* Properties of the parsers (SpecParse) *)

\* the words of a configuration line, <<>> for a line that is skipped
ConfigWords(line) ==
    IF ConfigLineText(line) = None THEN <<>> ELSE Split(ConfigLineText(line)[1])
\* the step reads a configuration line of two words with the given directive set
ReadsDirective(names) ==
    /\ cfgLines' = cfgLines + 1
    /\ Len(ConfigWords(cfgLast')) = 2
    /\ Len(ConfigWords(cfgLast')[1]) = 1
    /\ ConfigWords(cfgLast')[1][1] \in names

\* C8: over the lines of all configuration files, the first machine directive
\* sets machine; a later one, in the same or a later file, raises and leaves
\* machine at the first value; after an error no line changes the configuration.
C8_MachineOnce ==
    [][/\ ReadsDirective({"machine"}) =>
            IF config.machine = None
            THEN config' = [config EXCEPT !.machine = Some(ConfigWords(cfgLast')[2])]
            ELSE config' = [config EXCEPT !.err = Some("DuplicateMachine")]
       /\ config.err # None => config' = config]_allVars

\* a second machine directive, read from the second file, has raised and
\* machine keeps the value of the first
C8_Witness ==
    /\ config.err = Some("DuplicateMachine")
    /\ cfgFile = 2
    /\ cfgLines = 2
    /\ cfgLast = <<"machine", " ", "i386">>
    /\ config.machine = Some(<<"amd64">>)

\* the words of a manifest line that is neither a comment nor continued
PlainLine(raw) == raw # <<>> /\ Find(raw, "#") = 0 /\ Find(raw, "\\") = 0
FlagDirectives == {"standard", "no-obj", "no-implicit-rule", "local", "profiling-routine",
                   "before-depend"}
\* some word in directive position (after the file name or after a directive
\* without arguments) is not one of the twelve keywords
UnknownKeyword(words) ==
    \E i \in 2..Len(words) :
        /\ ~(Len(words[i]) = 1 /\ words[i][1] \in DIRECTIVES)
        /\ \/ i = 2
           \/ Len(words[i - 1]) = 1 /\ words[i - 1][1] \in FlagDirectives

\* C9: a configuration line whose directive is none of the six known ones
\* raises and changes nothing else, and no later line is applied; a manifest
\* line with an unknown keyword in directive position raises and appends no entry.
C9_UnknownDirective ==
    [][/\ (/\ cfgLines' = cfgLines + 1
           /\ Len(ConfigWords(cfgLast')) = 2
           /\ ~ReadsDirective(ConfigDirectives))
          => config' = [config EXCEPT !.err = Some("UnknownDirective")]
       /\ config.err # None => config' = config
       /\ (/\ mfLines' = mfLines + 1
           /\ prev_line = <<>>
           /\ PlainLine(mfLast')
           /\ UnknownKeyword(Split(mfLast')))
          => (mfErr' # None /\ files' = files)
       /\ mfErr # None => files' = files]_allVars

\* a manifest line with an unknown keyword after two known ones has raised,
\* after a line that appended its entry
C9_Witness ==
    /\ mfErr # None
    /\ Len(files) = 1
    /\ mfLines = 2
    /\ mfLast = Line(<< <<"f", ".", "c">>, std, <<"no-obj">>, <<"obsolete">>, <<"x">> >>)

-----------------------------------------------------------------------------
(* Properties of the extension dispatch (Spec) *)

\* the text after the last '.' of the path is none of c, m, S, or the path has no '.'
Unrecognized(filename) ==
    \/ \A i \in 1..Len(filename) : filename[i] # "."
    \/ \E i \in 1..Len(filename) :
        /\ filename[i] = "."
        /\ \A j \in (i + 1)..Len(filename) : filename[j] # "."
        /\ SubSeq(filename, i + 1, Len(filename)) \notin {<<"c">>, <<"m">>, <<"S">>}
\* the step is the iteration of the loop for the entry at idx
Iterates == pc = "loop" /\ idx <= Len(files) /\ idx' = idx + 1

\* C11: the iteration for an included entry without a recipe whose extension is
\* none of c, m, S (or that has no extension) raises: the call aborts, the entry
\* is not passed over, and no edge, before_depends name or link input is added.
C11_UnknownExtension ==
    [][(/\ Iterates
        /\ configured(files[idx], config) /\ ~files[idx].profiling
        /\ NoRecipe(files[idx])
        /\ Unrecognized(files[idx].filename[1]))
       => /\ pc' = "aborted"
          /\ err' # None
          /\ UNCHANGED <<early_builds, builds, before_depends, objs, out, opens>>]_allVars

\* a call aborted on an entry without extension, after an entry that made an edge
C11_Witness ==
    /\ pc = "aborted"
    /\ err = Some("IndexError")
    /\ idx = 3
    /\ files[2].filename = Some(<<"r">>)
    /\ Len(builds) = 1

\* the path ends in '.c'
EndsInDotC(filename) ==
    Len(filename) >= 2 /\ SubSeq(filename, Len(filename) - 1, Len(filename)) = <<".", "c">>
\* the part of the path after its last '/'
LastComponent(filename) ==
    IF \A i \in 1..Len(filename) : filename[i] # "/" THEN filename
    ELSE LET i == CHOOSE n \in 1..Len(filename) :
                      filename[n] = "/" /\ \A j \in (n + 1)..Len(filename) : filename[j] # "/"
         IN SubSeq(filename, i + 1, Len(filename))
\* the compile edge the claim describes for the entry f
CompileEdge(f) ==
    LET path == f.filename[1]
        base == LastComponent(path)
    IN Edge(SubSeq(base, 1, Len(base) - 1) \o <<"o">>, <<>>, <<"cc">>,
            <<IF f.local THEN path ELSE <<"$S", "/">> \o path>>, <<>>, <<>>, <<>>)
\* the step adds exactly the edge e to the two lists of edges
AddsOnly(e) ==
    \/ builds' = Append(builds, e) /\ early_builds' = early_builds
    \/ early_builds' = Append(early_builds, e) /\ builds' = builds

\* C12 as stated: the iteration for an entry with no optional directive and no
\* recipe whose path ends in .c adds exactly one edge, the compile edge, in
\* every configuration.
C12_CompileEdge_stated ==
    [][(/\ Iterates
        /\ files[idx].optional = <<>>
        /\ NoRecipe(files[idx])
        /\ EndsInDotC(files[idx].filename[1]))
       => AddsOnly(CompileEdge(files[idx]))]_allVars

\* C12 amended: the same for an entry that is not flagged profiling-routine.
C12_CompileEdge ==
    [][(/\ Iterates
        /\ files[idx].optional = <<>>
        /\ ~files[idx].profiling
        /\ NoRecipe(files[idx])
        /\ EndsInDotC(files[idx].filename[1]))
       => AddsOnly(CompileEdge(files[idx]))]_allVars

\* the loop has made the edge of d/f.c, and later the edge of the local config.c
C12_Witness ==
    /\ pc = "loop"
    /\ Len(files) = 6
    /\ idx = 3
    /\ files[1].filename = Some(<<"d", "/", "f", ".", "c">>)
    /\ builds = <<Edge(<<"f", ".", "o">>, <<>>, <<"cc">>,
                       << <<"$S", "/", "d", "/", "f", ".", "c">> >>, <<>>, <<>>, <<>>),
                  Edge(<<"config", ".", "o">>, <<>>, <<"cc">>,
                       << <<"config", ".", "c">> >>, <<>>, <<>>, <<>>)>>

\* the path ends in '.m'
EndsInDotM(filename) ==
    Len(filename) >= 2 /\ SubSeq(filename, Len(filename) - 1, Len(filename)) = <<".", "m">>
\* <base> with the given one-letter extension in place of the last letter of the path
WithLetter(filename, c) ==
    LET base == LastComponent(filename) IN SubSeq(base, 1, Len(base) - 1) \o <<c>>

\* C13: the iteration for an included entry with extension m and no recipe
\* appends to builds exactly a generation edge for <base>.c and a compile edge
\* making <base>.o from <base>.c, appends to early_builds exactly one edge for
\* <base>.h, and appends <base>.h to before_depends; in the build file <base>.h
\* is then an implicit input of every normal edge.
C13_InterfaceSource ==
    /\ [][(/\ Iterates
           /\ configured(files[idx], config) /\ ~files[idx].profiling
           /\ NoRecipe(files[idx])
           /\ EndsInDotM(files[idx].filename[1]))
          => LET path == files[idx].filename[1] IN
             /\ Len(builds') = Len(builds) + 2
             /\ SubSeq(builds', 1, Len(builds)) = builds
             /\ builds'[Len(builds) + 1].obj = WithLetter(path, "c")
             /\ builds'[Len(builds) + 1].rule = <<"awk">>
             /\ builds'[Len(builds) + 2].obj = WithLetter(path, "o")
             /\ builds'[Len(builds) + 2].rule = <<"cc">>
             /\ builds'[Len(builds) + 2].deps = <<WithLetter(path, "c")>>
             /\ Len(early_builds') = Len(early_builds) + 1
             /\ SubSeq(early_builds', 1, Len(early_builds)) = early_builds
             /\ early_builds'[Len(early_builds') ].obj = WithLetter(path, "h")
             /\ before_depends' = Append(before_depends, WithLetter(path, "h"))]_allVars
    /\ [](pc = "done" =>
            \A i \in Entries :
                (/\ configured(files[i], config) /\ ~files[i].profiling
                 /\ NoRecipe(files[i])
                 /\ EndsInDotM(files[i].filename[1]))
                => \A l \in BuildLines("normal") :
                       l.has_implicit
                       /\ WithLetter(files[i].filename[1], "h") \in Range(l.implicit_deps))

\* a build file written for a manifest whose second entry is the included k.m
C13_Witness ==
    /\ pc = "done"
    /\ Len(files) = 7
    /\ files[2].filename = Some(<<"k", ".", "m">>)
    /\ before_depends = << <<"k", ".", "h">> >>
    /\ \E l \in BuildLines("normal") : l.obj = <<"k", ".", "c">>
    /\ \E l \in BuildLines("normal") : l.obj = <<"f", ".", "o">>

-----------------------------------------------------------------------------
(* Properties of the link edge and of the layout of the build file (Spec) *)

Locore == <<"locore", ".", "o">>
HackPico == <<"hack", ".", "pico">>
\* the primary outputs of the included entries among the first n that request
\* object linkage, in manifest order
RECURSIVE LinkedOutputs(_)
LinkedOutputs(n) ==
    IF n = 0 THEN <<>>
    ELSE LinkedOutputs(n - 1)
         \o (IF ~Skipped(files[n], config) /\ files[n].obj
             THEN <<PrimaryOutput(files[n])>> ELSE <<>>)
\* the explicit inputs of the link edge of the build file
LinkInputs ==
    LET p == CHOOSE i \in 1..Len(out) : out[i].kind = "build" /\ out[i].obj = KernelFull
    IN out[p].deps

\* C14 as stated: the inputs of the link edge are the outputs of the linked
\* entries in manifest order, followed by locore.o and hack.pico.
C14_LinkInputs_stated ==
    pc = "done" => LinkInputs = LinkedOutputs(Len(files)) \o <<Locore, HackPico>>

\* C14 amended: the link-input list starts as locore.o alone, grows by the
\* output of each linked entry in manifest order while the entries are
\* processed, and receives hack.pico after the last entry; the link edge has
\* exactly these inputs: locore.o, the outputs in manifest order, hack.pico.
C14_LinkInputs ==
    /\ pc = "loop" => objs = <<Locore>> \o LinkedOutputs(idx - 1)
    /\ pc = "done" =>
        /\ objs = <<Locore>> \o LinkedOutputs(Len(files)) \o <<HackPico>>
        /\ LinkInputs = objs

\* a build file whose manifest has a linked entry, then an entry with no-obj
C14_Witness ==
    /\ pc = "done"
    /\ Len(files) = 7
    /\ files[1].filename = Some(<<"d", "/", "f", ".", "c">>)
    /\ files[2].filename = Some(<<"w", ".", "o">>)
    /\ ~files[2].obj
    /\ LinkInputs[1] = Locore /\ LinkInputs[2] = <<"f", ".", "o">>
    /\ LinkInputs[3] = <<"config", ".", "o">>
    /\ LinkInputs[Len(LinkInputs)] = HackPico

-----------------------------------------------------------------------------
(* Properties of the configuration (SpecParse) *)

\* the synthetic option of the device d
DevOption(d) == <<"DEV_">> \o Upper(d)
One == Some(<<"1">>)
\* the step reads an options directive that assigns the option named key
AssignsOption(key) ==
    /\ ReadsDirective({"options"})
    /\ LET value == ConfigWords(cfgLast')[2]
           e == Find(value, "=")
       IN key = (IF e = 0 THEN value ELSE SubSeq(value, 1, e - 1))

\* C15 as stated: after any sequence of directives, every device d has the
\* option DEV_<upper(d)> with the value "1".
C15_DeviceOption_stated ==
    \A d \in config.devices :
        HasKey(config.options, DevOption(d)) /\ Get(config.options, DevOption(d)) = One

\* C15 amended: after any sequence of directives every device d has the option
\* DEV_<upper(d)> present; a device directive sets it to "1" and adds d to the
\* devices, and the value stays "1" until an options directive assigns that option.
C15_DeviceOption ==
    /\ [](\A d \in config.devices : HasKey(config.options, DevOption(d)))
    /\ [][ReadsDirective({"device"}) =>
            LET d == ConfigWords(cfgLast')[2]
            IN d \in config'.devices /\ Get(config'.options, DevOption(d)) = One]_allVars
    /\ [][\A d \in config.devices :
            (Get(config.options, DevOption(d)) = One /\ ~AssignsOption(DevOption(d)))
            => Get(config'.options, DevOption(d)) = One]_allVars

\* two device directives read, the second with a mixed-case name
C15_Witness ==
    /\ config.err = None
    /\ cfgLines = 2
    /\ cfgLast = <<"device", " ", "A", "b">>
    /\ config.devices = {<<"a">>, <<"A", "b">>}
    /\ Get(config.options, <<"DEV_", "A">>) = One
    /\ Get(config.options, <<"DEV_", "A", "B">>) = One

-----------------------------------------------------------------------------
(* Properties of the option headers (SpecOptions) *)

\* the header the claim routes an option to
RouteOf(option) ==
    IF HasKey(table, option) THEN Get(table, option)
    ELSE <<"opt_">> \o Lower(Tail(option)) \o <<".h">>

\* C16: after write_headers, every configured option has its #define in the
\* header it is routed to (the table's header, or opt_<name without DEV_>.h):
\* no define is dropped because another option is routed to the same header.
C16_EveryDefine ==
    opc = "written" =>
        \A i \in 1..Len(config.options) :
            LET option == config.options[i][1]
                value == config.options[i][2]
            IN /\ HasKey(headers, RouteOf(option))
               /\ \E n \in 1..Len(Get(headers, RouteOf(option))) :
                    /\ Get(headers, RouteOf(option))[n][1] = "#define"
                    /\ Get(headers, RouteOf(option))[n][2] = option

\* the lines of the build file that open a variable, a rule or an edge
Headings == SelectSeq(out, LAMBDA l : l.kind \in {"var", "rule", "build"})
\* the place of a line in the order of the sections
SectionRank(l) ==
    CASE l.kind = "var" -> 1
      [] l.kind = "rule" -> 2
      [] l.kind = "build" /\ l.section = "early" -> 3
      [] l.kind = "build" /\ l.section = "normal" -> 4
      [] l.kind = "build" /\ l.section = "trailing" -> 5
      [] l.kind = "build" /\ l.section = "regenerate" -> 6
\* the names of the built-in rules, in the order of their declaration
BuiltinRules ==
    << <<"as">>, <<"awk">>, <<"awk_stdout">>, <<"cc">>, <<"freebsd-config">>, <<"hack">>,
       <<"ilink">>, <<"ld">>, <<"sh_stdout">>, <<"extract_debug">>, <<"strip_debug">>,
       <<"newvers">> >>
\* the names of the rule lines of the build file, in file order
RuleNames ==
    LET rl == SelectSeq(out, LAMBDA l : l.kind = "rule") IN [i \in 1..Len(rl) |-> rl[i].name]
\* the outputs of the build lines of a section, in file order
SectionOutputs(section) ==
    LET bl == SelectSeq(out, LAMBDA l : l.kind = "build" /\ l.section = section)
    IN [i \in 1..Len(bl) |-> bl[i].obj]

\* C17: the build file has its sections in the order variables, rules (the
\* built-in ones in declaration order, then the synthesized ones in creation
\* order), early edges, normal edges, the version, link and debug edges, the
\* regeneration edge; no normal edge line precedes an early edge line.
C17_SectionOrder ==
    pc = "done" =>
        /\ LET h == Headings
           IN \A i \in 1..(Len(h) - 1) : SectionRank(h[i]) <= SectionRank(h[i + 1])
        /\ RuleNames = BuiltinRules \o [n \in 1..rule_counter |-> <<"rule", ToString(n - 1)>>]
        /\ SectionOutputs("early") = [i \in 1..Len(early_builds) |-> early_builds[i].obj]
        /\ SectionOutputs("normal") = [i \in 1..Len(builds) |-> builds[i].obj]
        /\ SectionOutputs("trailing")
             = << <<"vers", ".", "c">>, KernelFull, KernelDebug, <<"kernel">> >>
        /\ out[Len(out)].kind = "build" /\ out[Len(out)].section = "regenerate"

\* a build file with two synthesized rules, an early edge of the manifest and
\* normal edges
C17_Witness ==
    /\ pc = "done"
    /\ rule_counter = 2
    /\ Len(early_builds) = Len(DEFAULT_BUILDS) + 1
    /\ Len(builds) = 6

-----------------------------------------------------------------------------
(* Properties of the manifest (SpecParse) *)

\* the names of the five generated sources, in the order the claim gives
GeneratedSources ==
    << <<"config", ".", "c">>, <<"env", ".", "c">>, <<"hints", ".", "c">>,
       <<"vers", ".", "c">>, <<"vnode_if", ".", "c">> >>
\* the last five entries of fs are the generated sources: no condition, local,
\* no recipe
EndsWithGenerated(fs) ==
    /\ Len(fs) >= 5
    /\ \A n \in 1..5 :
         LET f == fs[Len(fs) - 5 + n]
         IN /\ f.filename = Some(GeneratedSources[n])
            /\ f.optional = <<>>
            /\ f.local
            /\ f.compile_with = None

\* C18: once Files is built, its last five entries are config.c, env.c, hints.c,
\* vers.c, vnode_if.c, each with an empty condition, local and without recipe,
\* and they follow every entry parsed from the manifest files.
C18_GeneratedEntries ==
    /\ []((unit = "Files" /\ mfFile = 3) => EndsWithGenerated(files))
    /\ [][(mfFile = 2 /\ mfFile' = 3) =>
            /\ Len(files') = Len(files) + 5
            /\ SubSeq(files', 1, Len(files)) = files]_allVars

\* a Files built from two manifest lines, the second left open by a continuation
C18_Witness ==
    /\ unit = "Files"
    /\ mfFile = 3
    /\ mfErr = None
    /\ mfLines = 2
    /\ mfLast = Line(<< <<"c", ".", "c">>, opt, <<"a">>, <<"\\">> >>)
    /\ Len(files) = 6

\* C19: a manifest line with a directive outside the vocabulary, in directive
\* position, does not abort parsing: the directive and its arguments are
\* passed over and the entry of the line is appended.
C19_LegacyFallback ==
    [][(/\ mfLines' = mfLines + 1
        /\ prev_line = <<>>
        /\ PlainLine(mfLast')
        /\ UnknownKeyword(Split(mfLast')))
       => (mfErr' = None /\ Len(files') = Len(files) + 1)]_allVars

-----------------------------------------------------------------------------
(* Frame of the synthesizer (Spec) *)

\* C20: no step of generate_rules, in a call that completes or in one that
\* aborts, changes the configuration (machine, ident, cpu, options, devices,
\* makeoptions) or any field of any entry.
C20_InputsUnchanged ==
    [][config' = config /\ files' = files]_allVars

\* two calls on a configuration with a device and an entry with a dependency:
\* the first completed, the second aborted
C20_Witness ==
    /\ calls = 2
    /\ pc = "aborted"
    /\ prevOut # None
    /\ config.devices = {<<"a">>}
    /\ Len(files) = 6
    /\ files[1].filename = Some(<<"y", ".", "o">>)
    /\ files[1].dependencies = << <<"z", ".", "c">> >>

-----------------------------------------------------------------------------
(* Properties of the recipe dispatch (Spec) *)

\* the registered patterns, in registration order
PatternOrder == <<"awk_stdout", "awk", "as", "cc", "normal_c", "genassym">>
\* pattern n matches at the start of the recipe s
PatternMatches(n, s) ==
    CASE PatternOrder[n] = "awk_stdout" -> awk_stdout_Match(s)
      [] PatternOrder[n] = "awk" -> awk_Match(s)
      [] PatternOrder[n] = "as" -> as_Match(s)
      [] PatternOrder[n] = "cc" -> cc_Match(s)
      [] PatternOrder[n] = "normal_c" -> normal_c_Match(s)
      [] PatternOrder[n] = "genassym" -> genassym_Match(s)
\* what the builder of pattern n returns for the entry f
PatternBuilds(n, f, s) ==
    CASE PatternOrder[n] = "awk_stdout" -> awk_stdout_rule(f, s)
      [] PatternOrder[n] = "awk" -> awk_rule(f, s)
      [] PatternOrder[n] = "as" -> as_rule(f, s)
      [] PatternOrder[n] = "cc" -> cc_rule(f, s)
      [] PatternOrder[n] = "normal_c" -> cc_rule(f, s)
      [] PatternOrder[n] = "genassym" -> genassym_rule(f, s)
\* the first pattern that matches s, 0 when none does
FirstMatch(s) ==
    IF \E n \in 1..Len(PatternOrder) : PatternMatches(n, s)
    THEN CHOOSE n \in 1..Len(PatternOrder) :
            PatternMatches(n, s) /\ \A m \in 1..(n - 1) : ~PatternMatches(m, s)
    ELSE 0
\* the step is the iteration for an included entry with a recipe
IteratesRecipe ==
    /\ Iterates
    /\ configured(files[idx], config) /\ ~files[idx].profiling
    /\ ~NoRecipe(files[idx])
\* the step adds one edge in all to the two lists of edges
AddsOneEdge ==
    Len(early_builds') + Len(builds') = Len(early_builds) + Len(builds) + 1
\* the edge the step added
AddedEdge ==
    IF Len(builds') > Len(builds) THEN builds'[Len(builds')]
    ELSE early_builds'[Len(early_builds')]

-----------------------------------------------------------------------------
(* Properties of the table of ad-hoc rules (Spec) *)

\* the entries before the loop's position that took the fallback
FallbackEntries == {i \in Entries : i < idx /\ Fallback(i)}
\* the first entry whose fallback command is the given text
FirstUse(command) ==
    CHOOSE i \in FallbackEntries :
        Command(i) = command /\ \A j \in FallbackEntries : Command(j) = command => i <= j
\* the rule lines of the build file that declare an ad-hoc rule
SynthesizedDeclarations ==
    {p \in 1..Len(out) : out[p].kind = "rule" /\ out[p].name[1] = "rule"}

\* C22: while the loop runs and after it, the n-th pair of the rule table names
\* rule<n-1>, the commands of the table are pairwise distinct and are the
\* fallback commands of the included entries processed so far in order of first
\* use, rule_counter is the size of the table, and the build file declares as
\* many ad-hoc rules as there are distinct fallback commands.
C22_RuleNames ==
    pc \in {"loop", "done"} =>
        /\ rule_counter = Len(rules)
        /\ \A n \in 1..Len(rules) : rules[n][2] = RuleName(n - 1)
        /\ \A n, m \in 1..Len(rules) : rules[n][1] = rules[m][1] => n = m
        /\ {rules[n][1] : n \in 1..Len(rules)} = {Command(i) : i \in FallbackEntries}
        /\ \A n, m \in 1..Len(rules) :
             n < m => FirstUse(rules[n][1]) < FirstUse(rules[m][1])
        /\ pc = "done" =>
             /\ Cardinality(SynthesizedDeclarations)
                  = Cardinality({Command(i) : i \in FallbackEntries})
             /\ \A n \in 1..Len(rules) :
                  \E p \in SynthesizedDeclarations :
                     /\ out[p].name = rules[n][2]
                     /\ out[p + 1].name = "command" /\ out[p + 1].value = rules[n][1]

\* a build file with two ad-hoc rules, rule0 for the first entry's command and
\* rule1 for the second's
C22_Witness ==
    /\ pc = "done"
    /\ Len(rules) = 2
    /\ rule_counter = 2
    /\ Fallback(1) /\ Fallback(2)
    /\ rules = << <<Command(1), RuleName(0)>>, <<Command(2), RuleName(1)>> >>
    /\ Cardinality(SynthesizedDeclarations) = 2

-----------------------------------------------------------------------------
(* Properties of the dependencies between the sections (Spec) *)

\* C23: in the build file, the output of every early-build line, those of the
\* default edges included, is among the implicit or the order-only inputs of
\* every normal-build line.
C23_EarlyBeforeNormal ==
    pc = "done" =>
        \A e \in BuildLines("early") :
            \A l \in BuildLines("normal") :
                \/ l.has_implicit /\ e.obj \in Range(l.implicit_deps)
                \/ l.has_order /\ e.obj \in Range(l.order_deps)

\* C24: no two build lines of the build file, of whatever section, have the same
\* output name.
C24_DistinctOutputs ==
    pc = "done" =>
        \A p, q \in 1..Len(out) :
            (out[p].kind = "build" /\ out[q].kind = "build" /\ out[p].obj = out[q].obj)
                => p = q

-----------------------------------------------------------------------------
(* Properties of the text of the build lines (Spec) *)

\* C25: on every build line of the build file each optional segment (the
\* implicit outputs, the implicit inputs, the order-only inputs) is written,
\* separator included, only when its list is non-empty; so a normal-build line
\* with no implicit input, before_depends being empty, has no segment of
\* implicit inputs.
C25_OptionalSegments ==
    pc = "done" =>
        \A p \in 1..Len(out) :
            out[p].kind = "build" =>
                /\ out[p].has_implicit_outs <=> out[p].implicit_outs # <<>>
                /\ out[p].has_implicit <=> out[p].implicit_deps # <<>>
                /\ out[p].has_order <=> out[p].order_deps # <<>>

-----------------------------------------------------------------------------
(* Properties of the logical lines of a manifest (SpecParse) *)

\* the line is blank or holds only a comment
CommentOrBlank(raw) == raw = <<>> \/ raw[1] = "#"
\* the line ends in a backslash
Continued(raw) == raw # <<>> /\ raw[Len(raw)] = "\\"

\* C26: reading a manifest, a blank or comment-only line yields no entry and
\* leaves the pending text alone, a line ending in a backslash is held to be
\* joined with the lines after it, any other line that parses yields exactly
\* one entry and ends the logical line, and at the end of the file no text is
\* pending without an entry that holds it.
C26_LogicalLines ==
    [][/\ mfLines' = mfLines + 1 =>
            IF CommentOrBlank(mfLast') THEN files' = files /\ prev_line' = prev_line
            ELSE IF Continued(mfLast')
            THEN /\ files' = files
                 /\ prev_line' = prev_line \o SubSeq(mfLast', 1, Len(mfLast') - 1)
            ELSE mfErr' = None => Len(files') = Len(files) + 1 /\ prev_line' = <<>>
       /\ (mfFile' = mfFile + 1 /\ prev_line # <<>>) =>
            Len(files') > Len(files) + (IF mfFile = 2 THEN Len(SyntheticLines) ELSE 0)
      ]_allVars

-----------------------------------------------------------------------------
(* Properties of the fields of a File entry (SpecParse) *)

\* the step reads a line without comment or backslash and appends its entry
AppendsEntry ==
    /\ mfLines' = mfLines + 1
    /\ PlainLine(mfLast')
    /\ Len(files') = Len(files) + 1
\* the entry the step appended, and the words of its logical line
Appended == files'[Len(files')]
LogicalWords == Split(prev_line \o mfLast')

\* C27: an entry appended by the parser whose path ends with ia32_genassym.o has
\* before_depend true whatever its directives; every other entry has
\* before_depend true iff its line holds the directive before-depend.
C27_BeforeDependQuirk ==
    [][AppendsEntry =>
        IF EndsWith(Appended.filename[1], Ia32Genassym)
        THEN Appended.before_depend
        ELSE Appended.before_depend
               <=> <<"before-depend">> \in Range(Tail(LogicalWords))]_allVars

\* the parser has appended the entry of 'x/ia32_genassym.o optional a no-obj',
\* a line without before-depend, with before_depend set
C27_Witness ==
    /\ unit = "Files"
    /\ mfErr = None
    /\ mfLast = Line(<< <<"x", "/", "ia32_genassym", ".", "o">>, opt, <<"a">>, <<"no-obj">> >>)
    /\ Len(files) = 2
    /\ files[2].filename = Some(<<"x", "/", "ia32_genassym", ".", "o">>)
    /\ files[2].before_depend
    /\ ~files[2].obj
    /\ files[1].before_depend
    /\ files[1].filename = Some(<<"x", ".", "c">>)

\* the words after the first compile-with of the line, up to the next directive
RecipeWords(words) ==
    collect_non_directives(SubSeq(words, Find(words, cw) + 1, Len(words)))
\* text with one layer of quotes removed when quotes surround it
Unquoted(text) ==
    IF Len(text) >= 2 /\ IsQuote(text[1]) /\ IsQuote(text[Len(text)])
    THEN SubSeq(text, 2, Len(text) - 1)
    ELSE text

\* C28: the recipe of an entry whose line holds compile-with is the words that
\* follow it up to the next directive, joined by single spaces, without the
\* quotes when quotes surround the joined text and unchanged otherwise.
C28_Recipe ==
    [][(AppendsEntry /\ Find(LogicalWords, cw) # 0) =>
        Appended.compile_with = Some(Unquoted(Join(RecipeWords(LogicalWords), <<" ">>)))
      ]_allVars

-----------------------------------------------------------------------------
(* Properties of conditions on devices (SpecParse) *)

\* an entry whose condition is the single item given
WithCondition(item) == [NewFile EXCEPT !.optional = << <<item>> >>]

\* C29: for every device d of the configuration, of whatever letter case, the
\* condition d is true and the condition !d is false.
C29_DeviceCondition ==
    \A d \in config.devices :
        /\ configured(WithCondition(d), config)
        /\ ~configured(WithCondition(<<"!">> \o d), config)

-----------------------------------------------------------------------------
(* Properties of the producers of the link inputs (Spec) *)

\* the outputs of the early-build and normal-build lines of the build file
ProducedOutputs ==
    {l.obj : l \in BuildLines("early") \cup BuildLines("normal")}

\* C30: in the build file every explicit input of the link edge other than
\* locore.o is the output of an early-build or a normal-build line.
C30_LinkedIsProduced ==
    pc = "done" =>
        \A n \in 1..Len(LinkInputs) :
            LinkInputs[n] # Locore => LinkInputs[n] \in ProducedOutputs

\* a build file that links r.c, the output the piping code-generator recipe of
\* the entry g.h names, and t.o is built without being linked
C30_Witness ==
    /\ pc = "done"
    /\ files[1].filename = Some(<<"g", ".", "h">>)
    /\ files[2].filename = Some(<<"t", ".", "o">>)
    /\ LinkInputs[2] = <<"r", ".", "c">>
    /\ <<"r", ".", "c">> \in ProducedOutputs
    /\ <<"t", ".", "o">> \in ProducedOutputs
    /\ <<"t", ".", "o">> \notin Range(LinkInputs)
    /\ <<"g", ".", "h">> \notin Range(LinkInputs)

====
